---- MODULE Spec2Model ----
(***************************************************************************)
(* HeliusWebSocketBackend: the ingestion pipeline of the wallet tracker.   *)
(* One execution context; every action below is one callback run to       *)
(* completion (a timer, a socket event, an HTTP completion, or a call of   *)
(* addWallet / removeWallet by the command interface).                     *)
(*                                                                         *)
(* Time: timestamps are kept relative to the current instant, so           *)
(* Date.now() is always Now = 0.  Tick(d) lets d milliseconds pass by      *)
(* shifting every stored timestamp by -d.  A timestamp that lies further   *)
(* in the past than any comparison of the program can tell is clamped.     *)
(* The throttle timestamps and timers are timed this way.  The reconnect   *)
(* timers and the two setInterval callbacks depend on no stored timestamp: *)
(* they may run at any instant after they were armed, which covers every   *)
(* phase they can have against the external events.  A cache expiry lies   *)
(* cacheExpiry ahead when it is stored, far beyond the throttle horizon;   *)
(* it is kept as stored until the instant the clock passes it              *)
(* (ExpiryPasses), from when it is Expired, i.e. behind Now.               *)
(***************************************************************************)
EXTENDS Integers, Sequences, FiniteSets, Bags, TLC

\* ---------------------------------------------------------------- bounds
MaxFrames == 3
CacheFrames == 2
MaxSockets == 2
MaxConnectTimers == 2
TickStep == 600
CallsLeft == 2
RotationFrames == 1
NotifyFrames == 2
ClassifyFrames == 1
MaxTransfers == 2
MaxCalls == 2

\* ------------------------------------------------------ program constants
rateLimitDelay == 1200
cacheExpiry == 300000
cacheCleanupInterval == 300000
keyRotationInterval == 900000
maxCallsPerRotation == 100
NumApiKeys == 5
maxReconnectAttempts == 5
initialReconnectDelay == 1000
maxReconnectDelay == 30000
resubscribeDelay == 1000

Now == 0

\* ------------------------------------------------------------ input sets
Wallets == {"w1", "w2"}
InvalidAddress == "bad address"
Addresses == Wallets \cup {InvalidAddress}
Mints == {"m1", "m2"}
MintSymbol(mint) == IF mint = "m1" THEN "FOO" ELSE "mSOL"
\* mint lists a detailed transaction can reference (extractMintAddresses
\* returns distinct mints)
MintLists == {<<>>, <<"m1", "m2">>}
\* detailed transactions the upstream can answer with
\* sol is what extractTokenAmounts returns as SOL transfers (isSOL), in
\* order; solAmount is in millionths of SOL.  Pool is an account nobody
\* watches.
Pool == "pool"
Accounts == Wallets \cup {Pool}
W1Pays == <<[fromUserAccount |-> "w1", toUserAccount |-> Pool, solAmount |-> 2000000]>>
EnhancedTxs == {[type |-> "TRANSFER", mints |-> <<"m1", "m2">>, sol |-> W1Pays]} \cup
               {[type |-> "SWAP", mints |-> ml, sol |-> W1Pays] : ml \in MintLists}
\* swaps for the classifier: up to MaxTransfers SOL transfers between the
\* accounts, of a dust amount, a fee, and 2 SOL in either sign, and the two
\* mints in either order
SolAmounts == {500, 5000, 2000000, -2000000}
SolTransfers == {[fromUserAccount |-> a, toUserAccount |-> b, solAmount |-> x] :
                    a \in Accounts, b \in Accounts, x \in SolAmounts}
SolLists == UNION {[1..n -> {t \in SolTransfers : t.fromUserAccount # t.toUserAccount}] :
                      n \in 0..MaxTransfers}
ClassifyTxs == {[type |-> "SWAP", mints |-> ml, sol |-> sl] :
                   ml \in {<<"m1", "m2">>, <<"m2", "m1">>}, sl \in SolLists}
\* a detailed transaction without a type field, and a swap that moves no SOL
NoType == "undefined"
OddTxs == {[type |-> NoType, mints |-> <<"m1", "m2">>, sol |-> W1Pays],
           [type |-> "SWAP", mints |-> <<"m1", "m2">>, sol |-> <<>>]}
NoTx == [type |-> "null", mints |-> <<>>, sol |-> <<>>]

Frames == 1..MaxFrames
SocketIds == 1..MaxSockets
NoSocket == 0
Kinds == {"enhanced", "assetBatch"}

Min(a, b) == IF a < b THEN a ELSE b
Max(a, b) == IF a > b THEN a ELSE b
SetMin(S) == CHOOSE x \in S : \A y \in S : x <= y
Range(s) == {s[i] : i \in DOMAIN s}

VARIABLES
    trackedWallets,           \* Set of watched addresses
    websocket,                \* this.websocket: a socket id, or NoSocket for null
    sockets,                  \* every socket the manager created: id -> readyState
    isConnected,
    reconnectAttempts,
    reconnectDelay,
    currentApiKeyIndex,
    callsPerKey,
    tokenInfoCache,           \* mint -> NoEntry or [symbol, expiry]
    enhancedTransactionQueue, \* Seq of requests { signature, resolve }
    assetBatchQueue,          \* Seq of requests { mintAddresses, resolve }
    lastEnhancedCall,
    lastAssetBatchCall,
    timers,                   \* bag of pending setTimeout / setInterval callbacks
    inflight,                 \* axios.post calls awaiting their response
    tasks,                    \* frame -> position of its processTransactionUpdate run
    posts,                    \* history: per kind, when and in what order POSTs left
    lastPost,                 \* output of the step just taken: its upstream POST
    lookupLog,                \* output of the step just taken: cache entries it handed out
    resultLog,                \* output of the step just taken: the call it completed
    futures,                  \* history: per request, how its promise ended
    wireLog,                  \* output of the step just taken: sockets created, messages sent
    keyUses,                  \* history: upstream calls made with the current credential
    notifyLog,                \* output of the step just taken: calls of onTransactionReceived
    filters,                  \* this.filters: the three lists of TransactionFilters
    handshakes,               \* history: the credential in the URL of each socket not yet closed
    probe                     \* a call of a function of the program on its own: argument, result

vars == <<trackedWallets, websocket, sockets, isConnected, reconnectAttempts,
          reconnectDelay, currentApiKeyIndex, callsPerKey, tokenInfoCache,
          enhancedTransactionQueue, assetBatchQueue, lastEnhancedCall,
          lastAssetBatchCall, timers, inflight, tasks, posts, lastPost, lookupLog,
          resultLog, futures, wireLog, keyUses, notifyLog, filters, handshakes,
          probe>>

NoEntry == [symbol |-> "none", expiry |-> 0]
Placeholder == [symbol |-> "N/A", expiry |-> 0]
Expired == -1

NoPost == [kind |-> "none", frame |-> 0, ids |-> <<>>, cached |-> {},
           walletsEmpty |-> FALSE]
NoResult == [kind |-> "none", frame |-> 0, ids |-> <<>>, status |-> "none",
             returned |-> {}, result |-> <<>>, cachedBefore |-> {}]

\* created: the socket new WebSocket(wsUrl) made and the index of the key in
\* its URL; opened: the socket whose onopen listener ran; sends: the <<socket, address>> of each logsSubscribe sent; threw:
\* "yes" when the handler ended in an exception, "lib" when it called send on
\* a closing or closed socket, which the ws library drops or throws on
\* depending on its version; rotated: the rotation the step made; ran: the
\* setTimeout callback the step ran; event: the socket event handled, if it
\* was an error or a close, and was: the state the socket was in
\* what the registered handler does at its first and at its second call
Returning == <<"returns", "returns">>
Callbacks == {Returning, <<"throws", "returns">>, <<"throws", "throws">>}
WalletOrders == {<<"w1", "w2">>, <<"w2", "w1">>}
\* a log notification with its signature, one without params, one without
\* signature, a message of another method, and text that is not JSON
FrameShapes == {"logsNotification", "noParams", "noSignature", "otherMethod",
                "notJson"}

\* at: for each call made so far, how many push frames the pipeline had
\* finished when it was made
\* result is the decision of the filter; value holds what any other function
\* returned, once it has
NoCall == [fn |-> "none", arg |-> <<>>, done |-> FALSE, result |-> FALSE,
           value |-> <<>>, at |-> <<>>]

NoWire == [created |-> NoSocket, key |-> 0, opened |-> NoSocket, sends |-> <<>>,
           threw |-> "no", rotated |-> "none", ran |-> "none",
           event |-> "none", was |-> "none"]

\* The whole object as one record, so that a handler is a function from the
\* state before to the state after and nested calls compose as in the source.
\* blocked is not program state: a handler sets it when a bound of the model
\* has no room for what the code would create.  The outputs start empty in
\* every step, so they show what this step did and nothing older.
\* data is the push frame the step handles, by its shape.
\* onTransactionReceived is the handler the bot installs, as what it does at
\* each of its calls in the step; thrown is an exception on its way up the
\* call stack.  walletOrder is the insertion order of the watched set,
\* which the model does not keep: a handler that reads it gets either order.
This ==
    [trackedWallets |-> trackedWallets, websocket |-> websocket,
     sockets |-> sockets, isConnected |-> isConnected,
     reconnectAttempts |-> reconnectAttempts, reconnectDelay |-> reconnectDelay,
     currentApiKeyIndex |-> currentApiKeyIndex, callsPerKey |-> callsPerKey,
     tokenInfoCache |-> tokenInfoCache,
     enhancedTransactionQueue |-> enhancedTransactionQueue,
     assetBatchQueue |-> assetBatchQueue,
     lastEnhancedCall |-> lastEnhancedCall,
     lastAssetBatchCall |-> lastAssetBatchCall,
     timers |-> timers, inflight |-> inflight, tasks |-> tasks,
     posts |-> posts, lastPost |-> NoPost, lookupLog |-> <<>>,
     resultLog |-> NoResult, futures |-> futures, wireLog |-> NoWire,
     keyUses |-> keyUses, notifyLog |-> <<>>,
     data |-> "logsNotification",
     onTransactionReceived |-> Returning, walletOrder |-> <<"w1", "w2">>,
     thrown |-> FALSE, blocked |-> FALSE]

\* The history of handshakes is kept by the specifications that start with
\* it recorded.  urls holds <<socket, index>> for every socket that is not
\* closed, index being the key getCurrentApiKey() put into its URL.
NoHandshakes == [recorded |-> FALSE, urls |-> {}]
Handshakes(m) ==
    IF ~handshakes.recorded THEN handshakes
    ELSE [handshakes EXCEPT !.urls =
             {u \in @ : m.sockets[u[1]] # "free" /\ u[1] # m.wireLog.created}
             \cup (IF m.wireLog.created # NoSocket
                   THEN {<<m.wireLog.created, m.wireLog.key>>} ELSE {})]

Commit(m) ==
    /\ ~m.blocked
    /\ trackedWallets' = m.trackedWallets
    /\ websocket' = m.websocket
    /\ sockets' = m.sockets
    /\ isConnected' = m.isConnected
    /\ reconnectAttempts' = m.reconnectAttempts
    /\ reconnectDelay' = m.reconnectDelay
    /\ currentApiKeyIndex' = m.currentApiKeyIndex
    /\ callsPerKey' = m.callsPerKey
    /\ tokenInfoCache' = m.tokenInfoCache
    /\ enhancedTransactionQueue' = m.enhancedTransactionQueue
    /\ assetBatchQueue' = m.assetBatchQueue
    /\ lastEnhancedCall' = m.lastEnhancedCall
    /\ lastAssetBatchCall' = m.lastAssetBatchCall
    /\ timers' = m.timers
    /\ inflight' = m.inflight
    /\ tasks' = m.tasks
    /\ posts' = m.posts
    /\ lastPost' = m.lastPost
    /\ lookupLog' = m.lookupLog
    /\ resultLog' = m.resultLog
    /\ futures' = m.futures
    /\ wireLog' = m.wireLog
    /\ keyUses' = m.keyUses
    /\ notifyLog' = m.notifyLog
    /\ filters' = filters
    /\ handshakes' = Handshakes(m)
    /\ probe' = probe

\* ---------------------------------------------------------------- timers
ThrottleFns == {"processEnhancedTransactionQueue", "processAssetBatchQueue"}
Timer(fn, delay, arg) == [fn |-> fn, due |-> Now + delay, arg |-> arg]
setTimeout(m, fn, delay, arg) ==
    [m EXCEPT !.timers = @ (+) SetToBag({Timer(fn, delay, arg)})]
clearFired(m, t) == [m EXCEPT !.timers = @ (-) SetToBag({t}), !.wireLog.ran = t.fn]
ConnectTimers(m) == {t \in BagToSet(m.timers) : t.fn \in {"connect", "resubscribe"}}
RECURSIVE SumCopies(_, _)
SumCopies(T, bag) ==
    IF T = {} THEN 0
    ELSE LET t == CHOOSE x \in T : TRUE
         IN CopiesIn(t, bag) + SumCopies(T \ {t}, bag)
PendingConnects(m) == SumCopies(ConnectTimers(m), m.timers)
\* setTimeout of a (re)connect callback; the model holds at most
\* MaxConnectTimers of them at a time
setConnectTimeout(m, fn, delay, arg) ==
    IF PendingConnects(m) >= MaxConnectTimers
    THEN [m EXCEPT !.blocked = TRUE]
    ELSE setTimeout(m, fn, delay, arg)

\* ------------------------------------------------------------ connection
\* WebSocket.close(): an open socket starts its closing handshake; a socket
\* still connecting aborts its handshake (the library then emits error and an
\* unclean close); a closing or closed socket ignores the call
wsClose(m, s) ==
    IF s = NoSocket THEN m
    ELSE [m EXCEPT !.sockets[s] =
            CASE @ = "open" -> "closing"
              [] @ = "connecting" -> "aborting"
              [] OTHER -> @]

FreeSockets(m) == {s \in SocketIds : m.sockets[s] = "free"}

connect(m) ==
    IF m.trackedWallets = {}
    THEN [m EXCEPT !.isConnected = FALSE]
    ELSE IF FreeSockets(m) = {}
         THEN [m EXCEPT !.blocked = TRUE]
         ELSE LET s == SetMin(FreeSockets(m))
              IN [m EXCEPT !.sockets[s] = "connecting", !.websocket = s,
                           !.wireLog.created = s,
                           !.wireLog.key = m.currentApiKeyIndex]

getStatus(m) ==
    [connected |-> m.isConnected,
     trackedWallets |-> Cardinality(m.trackedWallets),
     walletsArray |-> m.trackedWallets,
     cacheSize |-> Cardinality({mint \in DOMAIN m.tokenInfoCache :
                                  m.tokenInfoCache[mint].symbol # "none"}),
     queueSizes |-> [enhanced |-> Len(m.enhancedTransactionQueue),
                     assetBatch |-> Len(m.assetBatchQueue)]]

disconnect(m) ==
    IF m.websocket # NoSocket
    THEN [wsClose(m, m.websocket) EXCEPT !.isConnected = FALSE]
    ELSE m

\* mutant: the socket is closed and no new connection is scheduled
reconnectWithNewApiKey_CloseOnly(m) ==
    IF m.websocket # NoSocket THEN wsClose(m, m.websocket) ELSE m

reconnectWithNewApiKey(m) ==
    LET m1 == IF m.websocket # NoSocket THEN wsClose(m, m.websocket) ELSE m
    IN setConnectTimeout(m1, "connect", resubscribeDelay, {})

heliusApiKeys == <<"key1", "key2", "key3", "key4", "key5">>
getCurrentApiKey(m) == heliusApiKeys[m.currentApiKeyIndex + 1]

\* mutant: the index advances without wrapping
RotateIndex_NoWrap(m) ==
    [m EXCEPT !.currentApiKeyIndex = @ + 1, !.callsPerKey = 0, !.keyUses = 0]

RotateIndex(m) ==
    [m EXCEPT !.currentApiKeyIndex = (@ + 1) % NumApiKeys, !.callsPerKey = 0,
              !.keyUses = 0]

rotateApiKeyByTime(m) ==
    LET m1 == [RotateIndex(m) EXCEPT !.wireLog.rotated = "time"]
    IN IF m1.isConnected THEN reconnectWithNewApiKey(m1) ELSE m1

\* mutant: the threshold is compared with > instead of >=
rotateApiKeyByUsage_Late(m) ==
    LET m1 == [m EXCEPT !.callsPerKey = @ + 1]
    IN IF m1.callsPerKey > maxCallsPerRotation
       THEN LET m2 == [RotateIndex(m1) EXCEPT !.wireLog.rotated = "usage"]
            IN IF m2.isConnected THEN reconnectWithNewApiKey(m2) ELSE m2
       ELSE m1

rotateApiKeyByUsage(m) ==
    LET m1 == [m EXCEPT !.callsPerKey = @ + 1]
    IN IF m1.callsPerKey >= maxCallsPerRotation
       THEN LET m2 == [RotateIndex(m1) EXCEPT !.wireLog.rotated = "usage"]
            IN IF m2.isConnected THEN reconnectWithNewApiKey(m2) ELSE m2
       ELSE m1

\* mutant: the attempt is counted and never scheduled
handleReconnect_NoTimer(m) ==
    IF m.reconnectAttempts >= maxReconnectAttempts THEN m
    ELSE LET m1 == [m EXCEPT !.reconnectAttempts = @ + 1]
         IN [m1 EXCEPT !.reconnectDelay = Min(@ * 2, maxReconnectDelay)]

\* mutant: the retry bound is not looked at
handleReconnect_Unbounded(m) ==
    LET m1 == [m EXCEPT !.reconnectAttempts = @ + 1]
        m2 == setConnectTimeout(m1, "connect", m1.reconnectDelay, {})
    IN [m2 EXCEPT !.reconnectDelay = Min(@ * 2, maxReconnectDelay)]

handleReconnect(m) ==
    IF m.reconnectAttempts >= maxReconnectAttempts THEN m
    ELSE LET m1 == [m EXCEPT !.reconnectAttempts = @ + 1]
             m2 == setConnectTimeout(m1, "connect", m1.reconnectDelay, {})
         IN [m2 EXCEPT !.reconnectDelay = Min(@ * 2, maxReconnectDelay)]

\* ----------------------------------------------------- rate-limited queue
\* axios.post leaves the process: the call is in flight until its response
Post(m, kind, req, ids) ==
    [m EXCEPT !.keyUses = @ + 1,
              !.inflight = @ \cup {[kind |-> kind, frame |-> req.frame, ids |-> ids]},
              !.posts[kind] = [at |-> Now, gap |-> Now - @.at,
                               tickets |-> Append(@.tickets, req.ticket)],
              !.lastPost = [kind |-> kind, frame |-> req.frame, ids |-> ids,
                            cached |-> req.cached,
                            walletsEmpty |-> (m.trackedWallets = {})]]

\* fetchEnhancedTransactionDirect up to its await
fetchEnhancedTransactionDirect(m, req) ==
    Post(rotateApiKeyByUsage(m), "enhanced", req, <<>>)

\* fetchAssetInfoDirect up to its await
fetchAssetInfoDirect(m, req) ==
    Post(rotateApiKeyByUsage(m), "assetBatch", req, req.mintAddresses)

\* mutant: a throttled call returns without re-arming the timer
processEnhancedTransactionQueue_NoRetry(m) ==
    IF Len(m.enhancedTransactionQueue) = 0 THEN m
    ELSE LET timeSinceLastCall == Now - m.lastEnhancedCall
         IN IF timeSinceLastCall < rateLimitDelay
            THEN m
            ELSE LET req == Head(m.enhancedTransactionQueue)
                     m1 == [m EXCEPT !.enhancedTransactionQueue = Tail(@),
                                     !.lastEnhancedCall = Now]
                 IN fetchEnhancedTransactionDirect(m1, req)

\* mutant: the newest request is taken instead of the oldest (pop for shift)
processEnhancedTransactionQueue_Lifo(m) ==
    IF Len(m.enhancedTransactionQueue) = 0 THEN m
    ELSE LET timeSinceLastCall == Now - m.lastEnhancedCall
         IN IF timeSinceLastCall < rateLimitDelay
            THEN setTimeout(m, "processEnhancedTransactionQueue",
                            rateLimitDelay - timeSinceLastCall, {})
            ELSE LET n == Len(m.enhancedTransactionQueue)
                     req == m.enhancedTransactionQueue[n]
                     m1 == [m EXCEPT !.enhancedTransactionQueue = SubSeq(@, 1, n - 1),
                                     !.lastEnhancedCall = Now]
                 IN fetchEnhancedTransactionDirect(m1, req)

processEnhancedTransactionQueue(m) ==
    IF Len(m.enhancedTransactionQueue) = 0 THEN m
    ELSE LET timeSinceLastCall == Now - m.lastEnhancedCall
         IN IF timeSinceLastCall < rateLimitDelay
            THEN setTimeout(m, "processEnhancedTransactionQueue",
                            rateLimitDelay - timeSinceLastCall, {})
            ELSE LET req == Head(m.enhancedTransactionQueue)
                     m1 == [m EXCEPT !.enhancedTransactionQueue = Tail(@),
                                     !.lastEnhancedCall = Now]
                 IN fetchEnhancedTransactionDirect(m1, req)

\* mutant: the time of the call is not recorded
processAssetBatchQueue_NoStamp(m) ==
    IF Len(m.assetBatchQueue) = 0 THEN m
    ELSE LET timeSinceLastCall == Now - m.lastAssetBatchCall
         IN IF timeSinceLastCall < rateLimitDelay
            THEN setTimeout(m, "processAssetBatchQueue",
                            rateLimitDelay - timeSinceLastCall, {})
            ELSE LET req == Head(m.assetBatchQueue)
                     m1 == [m EXCEPT !.assetBatchQueue = Tail(@)]
                 IN fetchAssetInfoDirect(m1, req)

processAssetBatchQueue(m) ==
    IF Len(m.assetBatchQueue) = 0 THEN m
    ELSE LET timeSinceLastCall == Now - m.lastAssetBatchCall
         IN IF timeSinceLastCall < rateLimitDelay
            THEN setTimeout(m, "processAssetBatchQueue",
                            rateLimitDelay - timeSinceLastCall, {})
            ELSE LET req == Head(m.assetBatchQueue)
                     m1 == [m EXCEPT !.assetBatchQueue = Tail(@),
                                     !.lastAssetBatchCall = Now]
                 IN fetchAssetInfoDirect(m1, req)

\* new Promise(resolve => ...): the future of request <<kind, frame>>
Accept(m, kind, frame) == [m EXCEPT !.futures[<<kind, frame>>] = "pending"]
\* the place of a new request among the requests of its kind, in submission order
Ticket(m, kind) == Cardinality({f \in Frames : m.futures[<<kind, f>>] # "none"}) + 1
Resolve(m, kind, frame) ==
    [m EXCEPT !.futures[<<kind, frame>>] =
        IF @ = "pending" THEN "resolved" ELSE "resolvedTwice"]

getEnhancedTransaction(m, frame) ==
    LET m1 == [Accept(m, "enhanced", frame) EXCEPT
                  !.enhancedTransactionQueue =
                      Append(@, [frame |-> frame, mintAddresses |-> <<>>,
                                 cached |-> {},
                                 ticket |-> Ticket(m, "enhanced")])]
    IN processEnhancedTransactionQueue(m1)

\* --------------------------------------------------- frame processing
\* the async function returns, or rejects when an exception is on its way
\* out; nothing awaits or catches its promise (the call in onmessage)
EndTask(m, frame, outcome) ==
    [m EXCEPT !.tasks[frame] = [pc |-> "done", tx |-> NoTx],
              !.wireLog.threw = IF m.thrown THEN "rejected" ELSE @,
              !.thrown = FALSE]

\* ---- TransactionFilters
\* the object its constructor builds; the lists are fields of the object,
\* read through this.filters at every call
TransactionFilters ==
    [blacklistedTokens |-> {"Unknown", "N/A", "", "?", "-", "UNK", "UNKNOWN",
                            "SOL", "WSOL", "wSOL", "cwSOL", "cSOL", "stSOL", "mSOL",
                            "jitoSOL", "bSOL"},
     blacklistedWalletNames |-> {"Activity", "Activity...", "Activity Detected",
                                 "Transaction Detected", "Account Update",
                                 "Account Change", "Unknown", "Fallback",
                                 "Generic Transaction"},
     blacklistedTransactionTypes |-> {"fallback", "account_change",
                                      "system_transaction", "generic_activity"}]
blacklistedTokens == filters.blacklistedTokens
blacklistedWalletNames == filters.blacklistedWalletNames
blacklistedTransactionTypes == filters.blacklistedTransactionTypes
NoField == "undefined"

\* String.prototype.toUpperCase and trim on the strings the model handles;
\* none of them has leading or trailing blanks
toUpperCase(str) ==
    CASE str = "Unknown" -> "UNKNOWN"
      [] str = "wSOL" -> "WSOL"
      [] str = "cwSOL" -> "CWSOL"
      [] str = "cSOL" -> "CSOL"
      [] str = "stSOL" -> "STSOL"
      [] str = "mSOL" -> "MSOL"
      [] str = "jitoSOL" -> "JITOSOL"
      [] str = "bSOL" -> "BSOL"
      [] OTHER -> str
trim(str) == str
Falsy(value) == value \in {NoField, ""}

isTokenBlacklisted(token) ==
    IF Falsy(token) THEN TRUE
    ELSE toUpperCase(trim(token)) \in {toUpperCase(b) : b \in blacklistedTokens}
\* `includes` is a substring test; the wallet fields the model produces are
\* addresses, NoField, or a whole label
isWalletNameBlacklisted(walletName) ==
    IF Falsy(walletName) THEN FALSE
    ELSE trim(walletName) \in blacklistedWalletNames
isTransactionTypeBlacklisted(type) ==
    IF Falsy(type) THEN FALSE ELSE type \in blacklistedTransactionTypes
hasValidTokenLength(token) ==
    IF Falsy(token) THEN FALSE ELSE Len(trim(token)) >= 2

\* mutant: no early admission of valid symbols
shouldShowTransaction_NoShortCircuit(transactionData) ==
    IF isTokenBlacklisted(transactionData.token) THEN FALSE
    ELSE IF isWalletNameBlacklisted(transactionData.wallet) THEN FALSE
    ELSE IF isTransactionTypeBlacklisted(transactionData.type) THEN FALSE
    ELSE IF ~hasValidTokenLength(transactionData.token) THEN FALSE
    ELSE IF /\ transactionData.type = "enhanced_transaction"
            /\ Falsy(transactionData.mintAddress)
    THEN FALSE
    ELSE TRUE

\* mutant: the early admission takes symbols of one character
shouldShowTransaction_AdmitShort(transactionData) ==
    IF /\ ~Falsy(transactionData.token)
       /\ transactionData.token \notin {"SOL", "WSOL"}
       /\ Len(transactionData.token) >= 1
       /\ ~isTokenBlacklisted(transactionData.token)
    THEN TRUE
    ELSE IF isTokenBlacklisted(transactionData.token) THEN FALSE
    ELSE IF isWalletNameBlacklisted(transactionData.wallet) THEN FALSE
    ELSE IF isTransactionTypeBlacklisted(transactionData.type) THEN FALSE
    ELSE IF ~hasValidTokenLength(transactionData.token) THEN FALSE
    ELSE IF /\ transactionData.type = "enhanced_transaction"
            /\ Falsy(transactionData.mintAddress)
    THEN FALSE
    ELSE TRUE

\* mutant: the filter remembers a candidate and admits it once only
shouldShowTransaction_OnceOnly(transactionData) ==
    IF probe.done /\ probe.arg = transactionData THEN FALSE
    ELSE IF /\ ~Falsy(transactionData.token)
            /\ transactionData.token \notin {"SOL", "WSOL"}
            /\ Len(transactionData.token) >= 2
            /\ ~isTokenBlacklisted(transactionData.token)
    THEN TRUE
    ELSE FALSE

shouldShowTransaction(transactionData) ==
    IF /\ ~Falsy(transactionData.token)
       /\ transactionData.token \notin {"SOL", "WSOL"}
       /\ Len(transactionData.token) >= 2
       /\ ~isTokenBlacklisted(transactionData.token)
    THEN TRUE
    ELSE IF isTokenBlacklisted(transactionData.token) THEN FALSE
    ELSE IF isWalletNameBlacklisted(transactionData.wallet) THEN FALSE
    ELSE IF isTransactionTypeBlacklisted(transactionData.type) THEN FALSE
    ELSE IF ~hasValidTokenLength(transactionData.token) THEN FALSE
    ELSE IF /\ transactionData.type = "enhanced_transaction"
            /\ Falsy(transactionData.mintAddress)
    THEN FALSE
    ELSE TRUE

Abs(x) == IF x < 0 THEN 0 - x ELSE x
\* ---- numbers and amount strings
\* A number is m * 10^e, or NaN; the model computes with exact decimals and
\* leaves the rounding error of IEEE doubles out.  The mantissas stay small
\* enough for every product below to fit the checker's integers.
Dec(m, e) == [nan |-> FALSE, m |-> m, e |-> e]
NaN == [nan |-> TRUE, m |-> 0, e |-> 0]
Pow10(k) == 10 ^ k
RECURSIVE Norm(_)
Norm(d) == IF d.nan THEN d
           ELSE IF d.m = 0 THEN Dec(0, 0)
           ELSE IF d.m % 10 = 0 THEN Norm(Dec(d.m \div 10, d.e + 1))
           ELSE d
Sign(x) == IF x < 0 THEN -1 ELSE 1
\* d >= 10^k; every comparison with NaN is false
GeqPow10(d, k) ==
    IF d.nan \/ d.m <= 0 THEN FALSE
    ELSE IF k - d.e <= 0 THEN TRUE
    ELSE IF k - d.e > 9 THEN FALSE
    ELSE d.m >= Pow10(k - d.e)
Div10(d, k) == IF d.nan THEN d ELSE Norm(Dec(d.m, d.e - k))
Add(a, b) ==
    IF a.nan \/ b.nan THEN NaN
    ELSE IF a.m = 0 THEN Norm(b)
    ELSE IF b.m = 0 THEN Norm(a)
    ELSE LET e == Min(a.e, b.e)
         IN Norm(Dec(a.m * Pow10(a.e - e) + b.m * Pow10(b.e - e), e))
\* Number.prototype.toFixed(fractionDigits): the nearest multiple of
\* 10^-fractionDigits, the larger in magnitude of two that are as near
Units(d, fractionDigits) ==
    LET j == d.e + fractionDigits
    IN IF j >= 0 THEN d.m * Pow10(j)
       ELSE IF 0 - j > 9 THEN 0
       ELSE Sign(d.m) * ((Abs(d.m) + Pow10(0 - j) \div 2) \div Pow10(0 - j))
\* a rendered amount: units / 10^digits followed by the suffix
Text(units, digits, suffix) == [units |-> units, digits |-> digits, suffix |-> suffix]
toFixed(d, fractionDigits, suffix) ==
    IF d.nan THEN Text(0, 0, "NaN" \o suffix)
    ELSE Text(Units(d, fractionDigits), fractionDigits, suffix)
\* toLocaleString('en-US', {minimumFractionDigits: 0, maximumFractionDigits: 6})
\* of a number below 1000: at most six decimals, trailing zeros dropped
toLocaleString(d, suffix) ==
    LET r == Norm(Dec(Units(d, 6), -6))
    IN IF r.e >= 0 THEN Text(r.m * Pow10(r.e), 0, suffix)
       ELSE Text(r.m, 0 - r.e, suffix)

\* A value of the upstream JSON where an amount is expected, by its form:
\* null, undefined, a number, or a string that is empty, blank, a run of
\* digits ("2500000000000"), a decimal ("1.5"), a decimal followed by other
\* characters ("1.5abc"), or text without ("abc") and with ("abc.def") a dot.
\* m * 10^e is the number the form denotes, where it denotes one.
Js(form, m, e) == [form |-> form, m |-> m, e |-> e]
Undefined == Js("undefined", 0, 0)
Truthy(v) ==
    CASE v.form \in {"null", "undefined", "empty"} -> FALSE
      [] v.form = "number" -> v.m # 0
      [] OTHER -> TRUE
\* String(v) of a number below 1e21 is its shortest decimal
toStringForm(v) ==
    IF v.form = "number"
    THEN IF Norm(Dec(v.m, v.e)).e >= 0 THEN "digits" ELSE "decimal"
    ELSE v.form
includesDot(v) == toStringForm(v) \in {"decimal", "decimalJunk", "dottedText"}
parseFloat(v) ==
    IF toStringForm(v) \in {"digits", "decimal", "decimalJunk"}
    THEN Norm(Dec(v.m, v.e)) ELSE NaN
\* BigInt(string): throws a SyntaxError unless the string is an integer
\* literal; the empty and the blank string are 0n
BigIntThrows(v) == toStringForm(v) \notin {"digits", "empty", "blank"}
BigInt(v) == IF toStringForm(v) = "digits" THEN Norm(Dec(v.m, v.e)) ELSE Dec(0, 0)
\* a / 10^p and a % 10^p of BigInts, truncating towards zero
BigIntDiv(a, p) ==
    IF a.e >= p THEN Norm(Dec(a.m, a.e - p))
    ELSE IF p - a.e > 9 THEN Dec(0, 0)
    ELSE Dec(Sign(a.m) * (Abs(a.m) \div Pow10(p - a.e)), 0)
BigIntMod(a, p) ==
    IF a.e >= p THEN Dec(0, 0)
    ELSE IF p - a.e > 9 THEN a
    ELSE Norm(Dec(Sign(a.m) * (Abs(a.m) % Pow10(p - a.e)), a.e))

NotAvailable == Text(0, 0, "N/A")

\* mutant: the millions bucket is missing
formatAmountWithUnits_NoMillions(decimalAmount) ==
    IF GeqPow10(decimalAmount, 9)
    THEN toFixed(Div10(decimalAmount, 9), 2, "B tokens")
    ELSE IF GeqPow10(decimalAmount, 3)
    THEN toFixed(Div10(decimalAmount, 3), 2, "K tokens")
    ELSE IF GeqPow10(decimalAmount, 0)
    THEN toLocaleString(decimalAmount, " tokens")
    ELSE toFixed(decimalAmount, 6, " tokens")

formatAmountWithUnits(decimalAmount) ==
    IF GeqPow10(decimalAmount, 9)
    THEN toFixed(Div10(decimalAmount, 9), 2, "B tokens")
    ELSE IF GeqPow10(decimalAmount, 6)
    THEN toFixed(Div10(decimalAmount, 6), 2, "M tokens")
    ELSE IF GeqPow10(decimalAmount, 3)
    THEN toFixed(Div10(decimalAmount, 3), 2, "K tokens")
    ELSE IF GeqPow10(decimalAmount, 0)
    THEN toLocaleString(decimalAmount, " tokens")
    ELSE toFixed(decimalAmount, 6, " tokens")

\* the decimals argument after L554-567: a number as it is, 'Fungible' as 6,
\* a string of digits as parseInt reads it, any other string (parseInt is
\* NaN) and any other value, absent included, as 9
decimalsOf(decimals) ==
    CASE decimals.form = "number" -> decimals.m
      [] decimals.form = "Fungible" -> 6
      [] decimals.form = "digits" -> decimals.m
      [] OTHER -> 9

formatTokenAmount(rawAmount, decimals) ==
    IF rawAmount.form \in {"null", "undefined", "empty"} THEN NotAvailable
    ELSE IF includesDot(rawAmount)
    THEN IF parseFloat(rawAmount).nan THEN NotAvailable
         ELSE formatAmountWithUnits(parseFloat(rawAmount))
    ELSE IF BigIntThrows(rawAmount) THEN NotAvailable
    ELSE LET p == decimalsOf(decimals)
             rawAmountBigInt == BigInt(rawAmount)
             wholePart == BigIntDiv(rawAmountBigInt, p)
             remainder == BigIntMod(rawAmountBigInt, p)
             decimalAmount == Add(wholePart, Div10(remainder, p))
         IN formatAmountWithUnits(decimalAmount)

\* mutant: every amount is rendered with four decimals
formatSOLAmountDirect_FourDecimals(solAmount) == toFixed(solAmount, 4, " SOL")

formatSOLAmountDirect(solAmount) ==
    LET amount == solAmount
    IN IF GeqPow10(amount, 3) THEN toFixed(Div10(amount, 3), 2, "K SOL")
       ELSE IF GeqPow10(amount, 0) THEN toFixed(amount, 3, " SOL")
       ELSE IF GeqPow10(amount, -3) THEN toFixed(amount, 4, " SOL")
       ELSE toFixed(amount, 6, " SOL")

\* ---- transfer extraction
SOLMint == "So11111111111111111111111111111111111111112"

\* account === wallet || account?.includes(wallet) for some watched wallet;
\* the accounts of the model are whole addresses or absent
involvesTracked(m, account) == account \in m.trackedWallets

determineBuySell(m, transfer, enhancedTx) ==
    LET isReceiving == involvesTracked(m, transfer.toUserAccount)
        isSending == involvesTracked(m, transfer.fromUserAccount)
    IN IF isReceiving /\ ~isSending THEN TRUE
       ELSE IF isSending /\ ~isReceiving THEN FALSE
       ELSE IF isSending /\ isReceiving /\ enhancedTx.type = "SWAP" THEN ~isSending
       ELSE TRUE

\* transfer.tokenAmount && transfer.tokenAmount !== '0'
hasTokenAmount(transfer) ==
    /\ Truthy(transfer.tokenAmount)
    /\ ~(transfer.tokenAmount.form = "digits" /\ transfer.tokenAmount.m = 0)

\* mutant: the direction of a SOL transfer is not inverted
tokenEntry_NoCorrection(m, transfer, enhancedTx) ==
    LET isSOLTransfer == transfer.mint = SOLMint
        isBuy == determineBuySell(m, transfer, enhancedTx)
        decimals == IF Truthy(transfer.tokenStandard) THEN transfer.tokenStandard
                    ELSE Js("number", 9, 0)
    IN [mint |-> transfer.mint, amount |-> transfer.tokenAmount,
        decimals |-> decimals, rawAmount |-> transfer.tokenAmount,
        humanAmount |-> formatTokenAmount(transfer.tokenAmount, decimals),
        solAmount |-> IF ~isSOLTransfer THEN Dec(0, 0)
                      ELSE IF includesDot(transfer.tokenAmount)
                      THEN parseFloat(transfer.tokenAmount)
                      ELSE Div10(parseFloat(transfer.tokenAmount), 9),
        type |-> IF isBuy THEN "BUY" ELSE "SELL",
        isSOL |-> isSOLTransfer,
        fromUserAccount |-> transfer.fromUserAccount,
        toUserAccount |-> transfer.toUserAccount]

\* the entry pushed for one token transfer that has an amount
tokenEntry(m, transfer, enhancedTx) ==
    LET isSOLTransfer == transfer.mint = SOLMint
        isBuy == determineBuySell(m, transfer, enhancedTx)
        tradeType == IF isSOLTransfer
                     THEN IF isBuy THEN "SELL" ELSE "BUY"
                     ELSE IF isBuy THEN "BUY" ELSE "SELL"
        decimals == IF Truthy(transfer.tokenStandard) THEN transfer.tokenStandard
                    ELSE Js("number", 9, 0)
    IN [mint |-> transfer.mint, amount |-> transfer.tokenAmount,
        decimals |-> decimals, rawAmount |-> transfer.tokenAmount,
        humanAmount |-> formatTokenAmount(transfer.tokenAmount, decimals),
        solAmount |-> IF ~isSOLTransfer THEN Dec(0, 0)
                      ELSE IF includesDot(transfer.tokenAmount)
                      THEN parseFloat(transfer.tokenAmount)
                      ELSE Div10(parseFloat(transfer.tokenAmount), 9),
        type |-> tradeType,
        isSOL |-> isSOLTransfer,
        fromUserAccount |-> transfer.fromUserAccount,
        toUserAccount |-> transfer.toUserAccount]

\* parseFloat(transfer.amount || 0)
nativeAmount(transfer) ==
    IF Truthy(transfer.amount) THEN parseFloat(transfer.amount) ELSE Dec(0, 0)
\* amount !== 0, which NaN satisfies
hasNativeAmount(transfer) == nativeAmount(transfer).nan \/ nativeAmount(transfer).m # 0

\* the entry pushed for one native transfer; it has no amount and no decimals
nativeEntry(transfer) ==
    LET amount == nativeAmount(transfer)
        solAmount == Div10(amount, 9)
    IN [mint |-> SOLMint, amount |-> Undefined, decimals |-> Undefined,
        rawAmount |-> amount,
        humanAmount |-> formatSOLAmountDirect(solAmount),
        solAmount |-> solAmount,
        type |-> IF ~amount.nan /\ amount.m > 0 THEN "BUY" ELSE "SELL",
        isSOL |-> TRUE,
        fromUserAccount |-> transfer.fromUserAccount,
        toUserAccount |-> transfer.toUserAccount]

\* mutant: the native transfers are used whatever the token transfers gave
extractTokenAmounts_AlwaysNative(m, enhancedTx) ==
    LET kept == SelectSeq(enhancedTx.tokenTransfers, hasTokenAmount)
        tokenAmounts == [i \in DOMAIN kept |-> tokenEntry(m, kept[i], enhancedTx)]
        native == SelectSeq(enhancedTx.nativeTransfers, hasNativeAmount)
    IN tokenAmounts \o [i \in DOMAIN native |-> nativeEntry(native[i])]

\* the arrays of the model are arrays, an absent one being empty, and their
\* fields are of the forms above, so that nothing throws inside the try
extractTokenAmounts(m, enhancedTx) ==
    LET kept == SelectSeq(enhancedTx.tokenTransfers, hasTokenAmount)
        tokenAmounts == [i \in DOMAIN kept |-> tokenEntry(m, kept[i], enhancedTx)]
        hasSOLInTokenTransfers == \E i \in DOMAIN tokenAmounts : tokenAmounts[i].isSOL
        native == SelectSeq(enhancedTx.nativeTransfers, hasNativeAmount)
    IN IF ~hasSOLInTokenTransfers /\ Len(enhancedTx.nativeTransfers) > 0
       THEN tokenAmounts \o [i \in DOMAIN native |-> nativeEntry(native[i])]
       ELSE tokenAmounts

\* ---- hand-off to the bot
\* the call appended to notifyLog carries what the handler did with it
notifyTransaction(m, transactionData) ==
    LET outcome == m.onTransactionReceived[Len(m.notifyLog) + 1]
    IN [m EXCEPT !.notifyLog = Append(@, [data |-> transactionData,
                                          outcome |-> outcome]),
                 !.thrown = (outcome = "throws")]

\* mutant: the fallback hands nothing on
handleFallbackTransaction_Silent(m, frame) == m

handleFallbackTransaction(m, frame) ==
    notifyTransaction(m, [signature |-> frame, wallet |-> "Transaction Detected",
                          token |-> "Unknown", buySell |-> NoField,
                          solAmount |-> NoField, type |-> "basic_transaction",
                          mintAddress |-> NoField])

\* the catch block of processTransactionUpdate
catchTransactionError(m, frame) ==
    IF m.thrown THEN handleFallbackTransaction([m EXCEPT !.thrown = FALSE], frame)
    ELSE m

\* the first asset with a usable symbol that is not the SOL mint (none of
\* Mints is), as an index into the array, or 0
symbolsNotPrimary == {"SOL", "WSOL", "wSOL", "Unknown", "N/A", ""}
validNonSOLTokens(assetInfoArray) ==
    {i \in DOMAIN assetInfoArray :
        /\ ~Falsy(assetInfoArray[i].symbol)
        /\ trim(assetInfoArray[i].symbol) \notin symbolsNotPrimary
        /\ Len(trim(assetInfoArray[i].symbol)) >= 2}
\* Array.from(this.trackedWallets)[0]
firstTracked(m) ==
    IF m.trackedWallets = {} THEN NoField
    ELSE IF m.walletOrder[1] \in m.trackedWallets THEN m.walletOrder[1]
    ELSE m.walletOrder[2]

RECURSIVE Sum(_, _)
Sum(f, S) == IF S = {} THEN 0
             ELSE LET x == CHOOSE y \in S : TRUE IN f[x] + Sum(f, S \ {x})
\* 0.001 SOL
minSolAmount == 1000

\* solTransfers.reduce(...): the first transfer no other exceeds in magnitude
largestSOLTransfer(solTransfers) ==
    solTransfers[SetMin({i \in DOMAIN solTransfers :
        \A j \in DOMAIN solTransfers :
            Abs(solTransfers[j].solAmount) <= Abs(solTransfers[i].solAmount)})]

\* mutant: without a watched endpoint the amount is the main transfer's alone
classifySOLTransfers_MainOnly(m, solTransfers) ==
    LET largest == largestSOLTransfer(solTransfers)
        fromUserIsTracked == largest.fromUserAccount \in m.trackedWallets
        toUserIsTracked == largest.toUserAccount \in m.trackedWallets
    IN [totalSOLAmount |-> Abs(largest.solAmount),
        isUserBuying |-> fromUserIsTracked /\ ~toUserIsTracked,
        actualWalletInvolved |->
            IF toUserIsTracked /\ ~fromUserIsTracked THEN largest.toUserAccount
            ELSE IF fromUserIsTracked /\ ~toUserIsTracked THEN largest.fromUserAccount
            ELSE NoField]

\* direction, amount and wallet from a non-empty list of SOL transfers
classifySOLTransfers(m, solTransfers) ==
    LET largest == largestSOLTransfer(solTransfers)
        fromUserIsTracked == largest.fromUserAccount \in m.trackedWallets
        toUserIsTracked == largest.toUserAccount \in m.trackedWallets
        magnitude == [i \in DOMAIN solTransfers |-> Abs(solTransfers[i].solAmount)]
        userSendingSOL ==
            Sum(magnitude, {i \in DOMAIN solTransfers :
                               solTransfers[i].fromUserAccount \in m.trackedWallets})
        userReceivingSOL ==
            Sum(magnitude, {i \in DOMAIN solTransfers :
                               solTransfers[i].toUserAccount \in m.trackedWallets})
    IN IF fromUserIsTracked \/ toUserIsTracked
       THEN [totalSOLAmount |-> Abs(largest.solAmount),
             isUserBuying |-> fromUserIsTracked /\ ~toUserIsTracked,
             actualWalletInvolved |->
                 IF toUserIsTracked /\ ~fromUserIsTracked THEN largest.toUserAccount
                 ELSE IF fromUserIsTracked /\ ~toUserIsTracked
                 THEN largest.fromUserAccount
                 ELSE NoField]
       ELSE [totalSOLAmount |-> Sum(magnitude, DOMAIN solTransfers),
             isUserBuying |-> userSendingSOL > userReceivingSOL,
             actualWalletInvolved |-> NoField]

\* processTransactionUpdate from the asset metadata to the end of its try
\* block: primary token, SOL amount, event, filter, hand-off
classifyAndNotify(m, frame, assetInfoArray) ==
    LET enhancedTx == m.tasks[frame].tx
        valid == validNonSOLTokens(assetInfoArray)
        solTransfers == enhancedTx.sol
        c == IF Len(solTransfers) > 0
             THEN classifySOLTransfers(m, solTransfers)
             ELSE [totalSOLAmount |-> 0, isUserBuying |-> FALSE,
                   actualWalletInvolved |-> NoField]
    IN IF valid = {} THEN m
       ELSE IF Len(solTransfers) > 0 /\ c.totalSOLAmount < minSolAmount THEN m
       ELSE LET primaryToken == assetInfoArray[SetMin(valid)]
                transactionData ==
                    [signature |-> frame,
                     wallet |-> IF c.actualWalletInvolved # NoField
                                THEN c.actualWalletInvolved ELSE firstTracked(m),
                     token |-> primaryToken.symbol,
                     buySell |-> IF Len(solTransfers) = 0 THEN "UNKNOWN"
                                 ELSE IF c.isUserBuying THEN "BUY" ELSE "SELL",
                     solAmount |-> c.totalSOLAmount,
                     type |-> "enhanced_transaction", mintAddress |-> NoField]
            IN IF shouldShowTransaction(transactionData)
               THEN notifyTransaction(m, transactionData)
               ELSE m

finishTransactionUpdate(m, frame, assetInfoArray) ==
    EndTask(catchTransactionError(classifyAndNotify(m, frame, assetInfoArray), frame),
            frame, "classified")

CacheGet(m, mint) == m.tokenInfoCache[mint]
IsCached(m, mint) == CacheGet(m, mint) # NoEntry

\* mutant: only the uncached identifiers are queued for the upstream call
getAssetInfo_Partition(m, frame, mintAddresses) ==
    LET Hit(mint) == IsCached(m, mint)
        Miss(mint) == ~IsCached(m, mint)
        cachedInfo == [i \in DOMAIN SelectSeq(mintAddresses, Hit) |->
                          CacheGet(m, SelectSeq(mintAddresses, Hit)[i])]
    IN IF Len(cachedInfo) = Len(mintAddresses)
       THEN finishTransactionUpdate(
                [m EXCEPT !.lookupLog = cachedInfo,
                          !.resultLog = [kind |-> "cacheHit", frame |-> frame,
                                         ids |-> mintAddresses, status |-> "cached",
                                         returned |-> {}, result |-> cachedInfo,
                                         cachedBefore |-> {x \in Mints : IsCached(m, x)}]],
                frame, cachedInfo)
       ELSE LET m1 == [Accept(m, "assetBatch", frame) EXCEPT
                          !.assetBatchQueue =
                              Append(@, [frame |-> frame,
                                         mintAddresses |-> SelectSeq(mintAddresses, Miss),
                                         cached |-> {x \in Range(mintAddresses) : Hit(x)},
                                         ticket |-> Ticket(m, "assetBatch")]),
                          !.tasks[frame].pc = "awaitAsset"]
            IN processAssetBatchQueue(m1)

getAssetInfo(m, frame, mintAddresses) ==
    LET Hit(mint) == IsCached(m, mint)
        cachedInfo == [i \in DOMAIN SelectSeq(mintAddresses, Hit) |->
                          CacheGet(m, SelectSeq(mintAddresses, Hit)[i])]
    IN IF Len(cachedInfo) = Len(mintAddresses)
       THEN finishTransactionUpdate(
                [m EXCEPT !.lookupLog = cachedInfo,
                          !.resultLog = [kind |-> "cacheHit", frame |-> frame,
                                         ids |-> mintAddresses, status |-> "cached",
                                         returned |-> {}, result |-> cachedInfo,
                                         cachedBefore |-> {x \in Mints : IsCached(m, x)}]],
                frame, cachedInfo)
       ELSE LET m1 == [Accept(m, "assetBatch", frame) EXCEPT
                          !.assetBatchQueue =
                              Append(@, [frame |-> frame,
                                         mintAddresses |-> mintAddresses,
                                         cached |-> {x \in Range(mintAddresses) : Hit(x)},
                                         ticket |-> Ticket(m, "assetBatch")]),
                          !.tasks[frame].pc = "awaitAsset"]
            IN processAssetBatchQueue(m1)

IsSwap(type) == type = "SWAP"

\* processTransactionUpdate after `await this.getEnhancedTransaction`; a
\* transaction without type makes enhancedTx.type.toLowerCase() a TypeError
afterEnhancedTransaction(m, frame, enhancedTx) ==
    IF enhancedTx = NoTx
    THEN EndTask(catchTransactionError(handleFallbackTransaction(m, frame), frame),
                 frame, "fallback")
    ELSE IF enhancedTx.type = NoType
    THEN EndTask(catchTransactionError([m EXCEPT !.thrown = TRUE], frame),
                 frame, "typeError")
    ELSE IF ~IsSwap(enhancedTx.type) THEN EndTask(m, frame, "notSwap")
    ELSE IF Len(enhancedTx.mints) = 0 THEN EndTask(m, frame, "noMints")
    ELSE getAssetInfo([m EXCEPT !.tasks[frame].tx = enhancedTx],
                      frame, enhancedTx.mints)

\* onmessage and processTransactionUpdate up to its first await.  A frame
\* that is not JSON ends in the catch of onmessage; without params,
\* data.params.result is a TypeError, outside the try block
processTransactionUpdate(m, frame) ==
    IF m.data \in {"notJson", "otherMethod"} THEN EndTask(m, frame, "ignored")
    ELSE IF m.trackedWallets = {} THEN EndTask(m, frame, "ignored")
    ELSE IF m.data = "noParams"
    THEN EndTask([m EXCEPT !.thrown = TRUE], frame, "typeError")
    ELSE IF m.data = "noSignature" THEN EndTask(m, frame, "ignored")
    ELSE getEnhancedTransaction([m EXCEPT !.tasks[frame].pc = "awaitEnhanced"], frame)

\* the rest of processEnhancedTransactionQueue once the fetch has answered,
\* then the continuation of the frame that awaited the future
enhancedFetched(m, call, response) ==
    LET result == IF response.status = "ok" THEN response.tx ELSE NoTx
        m1 == [m EXCEPT !.inflight = @ \ {call},
                        !.resultLog = [kind |-> "enhanced", frame |-> call.frame,
                                       ids |-> <<>>,
                                       status |-> response.status,
                                       returned |-> {},
                                       result |-> <<result>>,
                                       cachedBefore |-> {}]]
        m2 == Resolve(m1, "enhanced", call.frame)
        m3 == IF Len(m2.enhancedTransactionQueue) > 0
              THEN setTimeout(m2, "processEnhancedTransactionQueue", rateLimitDelay, {})
              ELSE m2
    IN afterEnhancedTransaction(m3, call.frame, result)

CacheAfter(m, response) ==
    [mint \in Mints |->
        IF mint \in response.returned
        THEN [symbol |-> MintSymbol(mint), expiry |-> Now + cacheExpiry]
        ELSE m.tokenInfoCache[mint]]

\* mutant: a failed call answers from the cache instead of with placeholders
assetInfoResult_CachedOnFailure(m, mintAddresses, response) ==
    LET cache == IF response.status = "ok" THEN CacheAfter(m, response)
                 ELSE m.tokenInfoCache
    IN [cache |-> cache,
        result |-> [i \in DOMAIN mintAddresses |->
                       IF cache[mintAddresses[i]] # NoEntry
                       THEN cache[mintAddresses[i]] ELSE Placeholder]]

\* mutant: identifiers without metadata are left out of the result
assetInfoResult_DropMissing(m, mintAddresses, response) ==
    IF response.status = "ok"
    THEN LET cache == CacheAfter(m, response)
             Known(mint) == cache[mint] # NoEntry
         IN [cache |-> cache,
             result |-> [i \in DOMAIN SelectSeq(mintAddresses, Known) |->
                            cache[SelectSeq(mintAddresses, Known)[i]]]]
    ELSE [cache |-> m.tokenInfoCache,
          result |-> [i \in DOMAIN mintAddresses |-> Placeholder]]

\* fetchAssetInfoDirect after its await: cache update and the mapped result
assetInfoResult(m, mintAddresses, response) ==
    IF response.status = "ok"
    THEN LET cache == CacheAfter(m, response)
         IN [cache |-> cache,
             result |-> [i \in DOMAIN mintAddresses |->
                            IF cache[mintAddresses[i]] # NoEntry
                            THEN cache[mintAddresses[i]] ELSE Placeholder]]
    ELSE [cache |-> m.tokenInfoCache,
          result |-> [i \in DOMAIN mintAddresses |-> Placeholder]]

assetBatchFetched(m, call, response) ==
    LET r == assetInfoResult(m, call.ids, response)
        m1 == [m EXCEPT !.inflight = @ \ {call},
                        !.tokenInfoCache = r.cache,
                        !.lookupLog = IF response.status = "ok"
                                      THEN SelectSeq(r.result, LAMBDA e : e # Placeholder)
                                      ELSE <<>>,
                        !.resultLog = [kind |-> "assetBatch", frame |-> call.frame,
                                       ids |-> call.ids,
                                       status |-> response.status,
                                       returned |-> response.returned,
                                       result |-> r.result,
                                       cachedBefore |-> {x \in Mints : IsCached(m, x)}]]
        m2 == Resolve(m1, "assetBatch", call.frame)
        m3 == IF Len(m2.assetBatchQueue) > 0
              THEN setTimeout(m2, "processAssetBatchQueue", rateLimitDelay, {})
              ELSE m2
    IN finishTransactionUpdate(m3, call.frame, r.result)

purgeExpiredCache(m) ==
    [m EXCEPT !.tokenInfoCache =
        [mint \in Mints |-> IF @[mint] # NoEntry /\ @[mint].expiry < Now
                            THEN NoEntry ELSE @[mint]]]

\* ------------------------------------------------------ wallet management
validateWalletAddress(address) == address \in Wallets

\* websocket.send of one logsSubscribe message: a TypeError on a null
\* websocket, an Error of the library on a socket still connecting
subscribeToWallet(m, walletAddress) ==
    IF m.websocket = NoSocket \/ m.sockets[m.websocket] = "connecting"
    THEN [m EXCEPT !.wireLog.threw = "yes"]
    ELSE IF m.sockets[m.websocket] = "open"
         THEN [m EXCEPT !.wireLog.sends = Append(@, <<m.websocket, walletAddress>>)]
         ELSE [m EXCEPT !.wireLog.threw = "lib"]

\* trackedWallets.forEach(wallet => this.subscribeToWallet(wallet)); an
\* exception ends the loop
RECURSIVE subscribeEach(_, _)
subscribeEach(m, wallets) ==
    IF wallets = {} \/ m.wireLog.threw = "yes" THEN m
    ELSE LET wallet == CHOOSE w \in wallets : TRUE
         IN subscribeEach(subscribeToWallet(m, wallet), wallets \ {wallet})

subscribeToTrackedWallets(m) ==
    IF m.trackedWallets = {} THEN m ELSE subscribeEach(m, m.trackedWallets)

\* the onopen listener of a socket
onopen(m) ==
    LET m1 == [m EXCEPT !.isConnected = TRUE, !.reconnectAttempts = 0]
    IN IF m1.trackedWallets # {} THEN subscribeToTrackedWallets(m1) ELSE m1

\* mutant: the address is added without validation
addWallet_Unvalidated(m, walletAddress) ==
    LET wasEmpty == m.trackedWallets = {}
        m1 == [m EXCEPT !.trackedWallets = @ \cup {walletAddress}]
    IN IF wasEmpty /\ ~m1.isConnected THEN connect(m1)
       ELSE IF m1.isConnected THEN subscribeToWallet(m1, walletAddress)
       ELSE m1

addWallet(m, walletAddress) ==
    IF validateWalletAddress(walletAddress)
    THEN LET wasEmpty == m.trackedWallets = {}
             m1 == [m EXCEPT !.trackedWallets = @ \cup {walletAddress}]
         IN IF wasEmpty /\ ~m1.isConnected THEN connect(m1)
            ELSE IF m1.isConnected THEN subscribeToWallet(m1, walletAddress)
            ELSE m1
    ELSE m
addWalletReturns(m, walletAddress) == validateWalletAddress(walletAddress)

Discard(m, kind, queue) ==
    [m EXCEPT !.futures = [r \in DOMAIN @ |->
        IF r[1] = kind /\ \E i \in DOMAIN queue : queue[i].frame = r[2]
        THEN "discarded" ELSE @[r]]]

\* mutant: with addresses remaining the socket is closed and never replaced
removeWallet_NoReconnect(m, walletAddress) ==
    IF walletAddress \in m.trackedWallets
    THEN LET m1 == [m EXCEPT !.trackedWallets = @ \ {walletAddress}]
         IN IF m1.trackedWallets = {}
            THEN IF m1.websocket # NoSocket
                 THEN LET m2 == wsClose(m1, m1.websocket)
                          m3 == Discard(Discard(m2, "enhanced", m2.enhancedTransactionQueue),
                                        "assetBatch", m2.assetBatchQueue)
                      IN [m3 EXCEPT !.websocket = NoSocket,
                                    !.isConnected = FALSE,
                                    !.enhancedTransactionQueue = <<>>,
                                    !.assetBatchQueue = <<>>]
                 ELSE m1
            ELSE IF m1.websocket # NoSocket
                 THEN wsClose(m1, m1.websocket)
                 ELSE m1
    ELSE m

removeWallet(m, walletAddress) ==
    IF walletAddress \in m.trackedWallets
    THEN LET m1 == [m EXCEPT !.trackedWallets = @ \ {walletAddress}]
         IN IF m1.trackedWallets = {}
            THEN IF m1.websocket # NoSocket
                 THEN LET m2 == wsClose(m1, m1.websocket)
                          m3 == Discard(Discard(m2, "enhanced", m2.enhancedTransactionQueue),
                                        "assetBatch", m2.assetBatchQueue)
                      IN [m3 EXCEPT !.websocket = NoSocket,
                                    !.isConnected = FALSE,
                                    !.enhancedTransactionQueue = <<>>,
                                    !.assetBatchQueue = <<>>]
                 ELSE m1
            ELSE IF m1.websocket # NoSocket
                 THEN LET remainingWallets == m1.trackedWallets
                      IN setConnectTimeout(wsClose(m1, m1.websocket), "resubscribe",
                                           resubscribeDelay, remainingWallets)
                 ELSE m1
    ELSE m
removeWalletReturns(m, walletAddress) == walletAddress \in m.trackedWallets

\* ------------------------------------------------------------------ time
\* the instants, after Now, at which some comparison of the program changes
Deadlines ==
    {t.due : t \in {x \in BagToSet(timers) : x.fn \in ThrottleFns}}
    \cup {lastEnhancedCall + rateLimitDelay, lastAssetBatchCall + rateLimitDelay}
NextDeadline == SetMin({d \in Deadlines : d > Now})
InThrottleWindow ==
    \/ lastEnhancedCall + rateLimitDelay > Now
    \/ lastAssetBatchCall + rateLimitDelay > Now
TickChoices ==
    {NextDeadline} \cup
    (IF InThrottleWindow /\ TickStep < NextDeadline THEN {TickStep} ELSE {})

Elapse(m, d) ==
    [m EXCEPT
        !.lastEnhancedCall = Max(@ - d, Now - rateLimitDelay),
        !.lastAssetBatchCall = Max(@ - d, Now - rateLimitDelay),
        !.timers = LET old == @
                       Shift(x) == IF x.fn \in ThrottleFns
                                   THEN [x EXCEPT !.due = @ - d] ELSE x
                       Unshift(x) == IF x.fn \in ThrottleFns
                                     THEN [x EXCEPT !.due = @ + d] ELSE x
                   IN [t \in {Shift(x) : x \in BagToSet(old)} |-> old[Unshift(t)]],
        !.posts = [k \in Kinds |->
            [@[k] EXCEPT !.at = Max(@ - d, Now - rateLimitDelay)]]]

\* a timer that is due runs before more time passes
Tick ==
    /\ \A t \in BagToSet(timers) : t.fn \in ThrottleFns => t.due > Now
    /\ \E d \in {x \in Deadlines : x > Now} : TRUE
    /\ \E d \in TickChoices : Commit(Elapse(This, d))

\* the clock passes the expiry of some cache entries
FreshEntries == {mint \in Mints : tokenInfoCache[mint] # NoEntry
                                  /\ tokenInfoCache[mint].expiry >= Now}
ExpiryPasses ==
    \E S \in SUBSET FreshEntries :
        /\ S # {}
        /\ Commit([This EXCEPT !.tokenInfoCache =
               [mint \in Mints |-> IF mint \in S
                                   THEN [@[mint] EXCEPT !.expiry = Expired]
                                   ELSE @[mint]]])

\* --------------------------------------------------------------- actions
Due(fn) == {t \in BagToSet(timers) :
               t.fn = fn /\ (fn \in ThrottleFns => t.due <= Now)}

EnhancedQueueTimer ==
    \E t \in Due("processEnhancedTransactionQueue") :
        Commit(processEnhancedTransactionQueue(clearFired(This, t)))

AssetBatchQueueTimer ==
    \E t \in Due("processAssetBatchQueue") :
        Commit(processAssetBatchQueue(clearFired(This, t)))

\* setTimeout(() => this.connect()) of reconnectWithNewApiKey and handleReconnect
ConnectTimer ==
    \E t \in Due("connect") : Commit(connect(clearFired(This, t)))

\* the setTimeout callback of removeWallet
ResubscribeTimer ==
    \E t \in Due("resubscribe") :
        Commit(connect([clearFired(This, t) EXCEPT !.trackedWallets = t.arg]))

\* the setInterval callback of initializeKeyRotation
KeyRotationTimer == Commit(rotateApiKeyByTime(This))

\* the setInterval callback of setupCacheCleanup
CacheCleanupTimer == Commit(purgeExpiredCache(This))

AddWalletIn(A) == \E a \in A : Commit(addWallet(This, a))
RemoveWalletIn(A) == \E a \in A : Commit(removeWallet(This, a))
AddWallet == AddWalletIn(Addresses)
RemoveWallet == RemoveWalletIn(Addresses)

Disconnect ==
    /\ websocket # NoSocket
    /\ Commit(disconnect(This))

OnOpen ==
    \E s \in SocketIds :
        /\ sockets[s] = "connecting"
        /\ Commit(onopen([This EXCEPT !.sockets[s] = "open", !.wireLog.opened = s]))

OnError ==
    \E s \in SocketIds :
        /\ sockets[s] \in {"connecting", "open", "aborting"}
        /\ Commit([This EXCEPT !.sockets[s] = "failed", !.isConnected = FALSE,
                               !.wireLog.event = "error",
                               !.wireLog.was = sockets[s]])

OnCloseWith(wasClean) ==
    \E s \in SocketIds :
        /\ sockets[s] \in {"open", "closing", "failed"}
        /\ sockets[s] = "failed" => ~wasClean
        /\ LET m1 == [This EXCEPT !.sockets[s] = "free", !.isConnected = FALSE,
                                  !.wireLog.event = IF wasClean THEN "cleanClose"
                                                    ELSE "uncleanClose",
                                  !.wireLog.was = sockets[s]]
           IN Commit(IF ~wasClean THEN handleReconnect(m1) ELSE m1)
OnClose == \E wasClean \in BOOLEAN : OnCloseWith(wasClean)
OnCleanClose == OnCloseWith(TRUE)

\* the n-th frame the sockets deliver, while the environment has frames left
NextFrame == SetMin({f \in Frames : tasks[f].pc = "idle"})
OnMessageUpTo(n) ==
    \E s \in SocketIds :
        /\ sockets[s] \in {"open", "closing"}
        /\ \E f \in 1..n : tasks[f].pc = "idle"
        /\ Commit(processTransactionUpdate(This, NextFrame))
OnMessage == OnMessageUpTo(MaxFrames)
\* the same with a frame of any shape
OnMessageAny(n) ==
    \E s \in SocketIds, data \in FrameShapes :
        /\ sockets[s] \in {"open", "closing"}
        /\ \E f \in 1..n : tasks[f].pc = "idle"
        /\ Commit(processTransactionUpdate([This EXCEPT !.data = data], NextFrame))

EnhancedResponsesWith(txs) ==
    {[status |-> "error", tx |-> NoTx], [status |-> "empty", tx |-> NoTx]}
    \cup {[status |-> "ok", tx |-> tx] : tx \in txs}
EnhancedResponses == EnhancedResponsesWith(EnhancedTxs)
AssetResponses(ids) ==
    {[status |-> "error", returned |-> {}], [status |-> "noResult", returned |-> {}]}
    \cup {[status |-> "ok", returned |-> S] : S \in SUBSET Range(ids)}

\* the answer of the transaction endpoint, with a handler that returns
EnhancedResponse ==
    \E call \in inflight, response \in EnhancedResponses :
        /\ call.kind = "enhanced"
        /\ Commit(enhancedFetched(This, call, response))

\* the same with detailed transactions, handlers and insertion orders to choose
EnhancedResponseWith(txs, callbacks, orders) ==
    \E call \in inflight, response \in EnhancedResponsesWith(txs),
       callback \in callbacks, order \in orders :
        /\ call.kind = "enhanced"
        /\ Commit(enhancedFetched([This EXCEPT !.onTransactionReceived = callback,
                                               !.walletOrder = order],
                                  call, response))
EnhancedResponseAny == EnhancedResponseWith(EnhancedTxs \cup OddTxs, Callbacks, WalletOrders)

AssetBatchResponseOf(statuses) ==
    \E call \in inflight :
        /\ call.kind = "assetBatch"
        /\ \E response \in AssetResponses(call.ids) :
               /\ response.status \in statuses
               /\ Commit(assetBatchFetched(This, call, response))

AssetBatchResponseWith(callbacks, orders) ==
    \E call \in inflight, callback \in callbacks, order \in orders :
        /\ call.kind = "assetBatch"
        /\ \E response \in AssetResponses(call.ids) :
               Commit(assetBatchFetched([This EXCEPT !.onTransactionReceived = callback,
                                                !.walletOrder = order],
                                        call, response))
AssetBatchResponseAny == AssetBatchResponseWith(Callbacks, WalletOrders)
AssetBatchResponse == AssetBatchResponseOf({"error", "noResult", "ok"})

IdleTask == [pc |-> "idle", tx |-> NoTx]

\* the state after construction, or the idle state the program is in after
\* some rotations and upstream calls, once its last address is removed and its
\* cache has been swept: index is the credential selected, calls the usage
\* counter, uses the calls made with the credential (one more than the
\* counter when the call that selected it was the first to use it)
ManagerInit(index, calls, uses) ==
    /\ trackedWallets = {}
    /\ websocket = NoSocket
    /\ sockets = [s \in SocketIds |-> "free"]
    /\ isConnected = FALSE
    /\ reconnectAttempts = 0
    /\ reconnectDelay = initialReconnectDelay
    /\ currentApiKeyIndex = index
    /\ callsPerKey = calls
    /\ tokenInfoCache = [mint \in Mints |-> NoEntry]
    /\ enhancedTransactionQueue = <<>>
    /\ assetBatchQueue = <<>>
    /\ lastEnhancedCall = Now - rateLimitDelay
    /\ lastAssetBatchCall = Now - rateLimitDelay
    /\ timers = EmptyBag
    /\ inflight = {}
    /\ tasks = [f \in Frames |-> IdleTask]
    /\ posts = [k \in Kinds |-> [at |-> Now - rateLimitDelay, gap |-> rateLimitDelay,
                                  tickets |-> <<>>]]
    /\ lastPost = NoPost
    /\ lookupLog = <<>>
    /\ resultLog = NoResult
    /\ futures = [r \in Kinds \X Frames |-> "none"]
    /\ wireLog = NoWire
    /\ keyUses = uses
    /\ notifyLog = <<>>
    /\ filters = TransactionFilters

InitAfter(index, calls, uses) ==
    ManagerInit(index, calls, uses) /\ handshakes = NoHandshakes /\ probe = NoCall

Init == InitAfter(0, 0, 0)

Next ==
    \/ Tick
    \/ ExpiryPasses
    \/ EnhancedQueueTimer
    \/ AssetBatchQueueTimer
    \/ ConnectTimer
    \/ ResubscribeTimer
    \/ KeyRotationTimer
    \/ CacheCleanupTimer
    \/ AddWallet
    \/ RemoveWallet
    \/ Disconnect
    \/ OnOpen
    \/ OnError
    \/ OnClose
    \/ OnMessageAny(MaxFrames)
    \/ EnhancedResponseAny
    \/ AssetBatchResponseAny

Spec == Init /\ [][Next]_vars

\* The connection manager on its own: every wallet operation, socket event,
\* reconnect timer and key rotation; no push frame is delivered.
ConnNext ==
    \/ AddWallet
    \/ RemoveWallet
    \/ Disconnect
    \/ OnOpen
    \/ OnError
    \/ OnClose
    \/ ConnectTimer
    \/ ResubscribeTimer
    \/ KeyRotationTimer

ConnSpec == Init /\ [][ConnNext]_vars

\* The enrichment pipeline with its cache: CacheFrames push frames, every
\* upstream answer, the clock and the sweep, with an operator who watches one
\* address and a transport that closes cleanly.
QueueAddresses == {"w1", InvalidAddress}
CacheNext ==
    \/ Tick
    \/ ExpiryPasses
    \/ EnhancedQueueTimer
    \/ AssetBatchQueueTimer
    \/ CacheCleanupTimer
    \/ AddWalletIn(QueueAddresses)
    \/ RemoveWalletIn(QueueAddresses)
    \/ OnOpen
    \/ OnCleanClose
    \/ OnMessageUpTo(CacheFrames)
    \/ EnhancedResponse
    \/ AssetBatchResponse

CacheSpec == Init /\ [][CacheNext]_vars

\* Credential rotation: the rotation timer and the usage counter, which
\* starts new or CallsLeft calls short of the threshold, with the upstream
\* calls of RotationFrames push frames and the reconnects rotation asks for.
RotationInit ==
    \/ Init
    \/ \E index \in {1, NumApiKeys - 1} :
           LET calls == maxCallsPerRotation - CallsLeft
           IN InitAfter(index, calls, calls + 1)

RotationNext ==
    \/ ConnectTimer
    \/ KeyRotationTimer
    \/ AddWalletIn(QueueAddresses)
    \/ RemoveWalletIn(QueueAddresses)
    \/ OnOpen
    \/ OnCleanClose
    \/ OnMessageUpTo(RotationFrames)
    \/ EnhancedResponse
    \/ AssetBatchResponseOf({"error", "noResult"})

RotationSpec == RotationInit /\ [][RotationNext]_vars

\* The credential of each connection: the connection manager with one
\* address to watch, the rotation timer, and the handshakes recorded.
HandshakeInit ==
    /\ ManagerInit(0, 0, 0)
    /\ handshakes = [recorded |-> TRUE, urls |-> {}]
    /\ probe = NoCall

HandshakeNext ==
    \/ AddWalletIn(QueueAddresses)
    \/ OnOpen
    \/ OnClose
    \/ ConnectTimer
    \/ KeyRotationTimer

HandshakeSpec == HandshakeInit /\ [][HandshakeNext]_vars

\* The hand-off to the bot: NotifyFrames push frames of any shape, every answer of the two
\* endpoints, detailed transactions with and without a type, and a handler
\* that returns or throws.
NotifyNext ==
    \/ Tick
    \/ EnhancedQueueTimer
    \/ AssetBatchQueueTimer
    \/ AddWalletIn(QueueAddresses)
    \/ RemoveWalletIn(QueueAddresses)
    \/ OnOpen
    \/ OnCleanClose
    \/ OnMessageAny(NotifyFrames)
    \/ EnhancedResponseAny
    \/ AssetBatchResponseAny

NotifySpec == Init /\ [][NotifyNext]_vars

\* The classifier: one push frame whose detailed transaction is any swap of
\* ClassifyTxs, with either or both addresses watched and a handler that
\* returns.
ClassifyNext ==
    \/ AddWalletIn(Wallets)
    \/ OnOpen
    \/ OnMessageUpTo(ClassifyFrames)
    \/ EnhancedResponseWith(ClassifyTxs, {Returning}, WalletOrders)
    \/ AssetBatchResponseWith({Returning}, WalletOrders)

ClassifySpec == Init /\ [][ClassifyNext]_vars

\* The filter on its own: shouldShowTransaction applied to one candidate
\* event, whose token, wallet label, type and mintAddress are any of the
\* values below.
CandidateTokens == {"FOO", "BONK", "mSOL", "SOL", "WSOL", "Unknown", "N/A", "", "X", NoField}
CandidateWallets == {"w1", "Activity Detected", "Generic Transaction",
                     "Transaction Detected", NoField}
CandidateTypes == {"enhanced_transaction", "basic_transaction", "account_change",
                   "system_transaction", NoField}
Candidates == [token : CandidateTokens, wallet : CandidateWallets,
               type : CandidateTypes, mintAddress : {NoField, "m1"}]

Unapplied(fn, arg) == [NoCall EXCEPT !.fn = fn, !.arg = arg]
FilterInit ==
    /\ ManagerInit(0, 0, 0)
    /\ handshakes = NoHandshakes
    /\ \E candidate \in Candidates :
           probe = Unapplied("shouldShowTransaction", candidate)

\* the push frames whose processTransactionUpdate has run to its end
FramesDone == Cardinality({f \in Frames : tasks[f].pc = "done"})

\* this.filters.shouldShowTransaction(transactionData): the method assigns
\* to no field of the filter and to no field of its argument
ShouldShowTransaction ==
    /\ probe.fn = "shouldShowTransaction"
    /\ Len(probe.at) < MaxCalls
    /\ probe' = [probe EXCEPT !.done = TRUE,
                              !.result = shouldShowTransaction(probe.arg),
                              !.at = Append(@, FramesDone)]
    /\ filters' = filters
    /\ UNCHANGED <<trackedWallets, websocket, sockets, isConnected, reconnectAttempts,
                   reconnectDelay, currentApiKeyIndex, callsPerKey, tokenInfoCache,
                   enhancedTransactionQueue, assetBatchQueue, lastEnhancedCall,
                   lastAssetBatchCall, timers, inflight, tasks, posts, lastPost,
                   lookupLog, resultLog, futures, wireLog, keyUses, notifyLog,
                   handshakes>>

FilterNext == ShouldShowTransaction

FilterSpec == FilterInit /\ [][FilterNext]_vars

\* The filter beside the pipeline: a candidate event of PurityCandidates is
\* put to the filter up to MaxCalls times while one push frame goes through
\* the pipeline, which applies the same filter to the event it builds.
PurityCandidates == [token : {"FOO", "mSOL", "X", NoField},
                     wallet : {"w1", "Activity Detected"},
                     type : {"enhanced_transaction", "account_change"},
                     mintAddress : {NoField}]
PurityInit ==
    /\ ManagerInit(0, 0, 0)
    /\ handshakes = NoHandshakes
    /\ \E candidate \in PurityCandidates :
           probe = Unapplied("shouldShowTransaction", candidate)

PurityNext ==
    \/ ShouldShowTransaction
    \/ AddWalletIn(QueueAddresses)
    \/ RemoveWalletIn(QueueAddresses)
    \/ OnOpen
    \/ OnCleanClose
    \/ OnMessageUpTo(ClassifyFrames)
    \/ EnhancedResponse
    \/ AssetBatchResponse

PuritySpec == PurityInit /\ [][PurityNext]_vars

\* Every variable of the manager; a call of a function that reads the object
\* and assigns to none of its fields leaves them as they are.
managerVars == <<trackedWallets, websocket, sockets, isConnected, reconnectAttempts,
                 reconnectDelay, currentApiKeyIndex, callsPerKey, tokenInfoCache,
                 enhancedTransactionQueue, assetBatchQueue, lastEnhancedCall,
                 lastAssetBatchCall, timers, inflight, tasks, posts, lastPost,
                 lookupLog, resultLog, futures, wireLog, keyUses, notifyLog, filters,
                 handshakes>>
Applied(value) == [probe EXCEPT !.done = TRUE, !.value = <<value>>,
                                !.at = Append(@, FramesDone)]

\* formatTokenAmount on its own: one call with a raw amount of any form and
\* a decimals argument of any form.  The integers are m * 10^e for the
\* mantissas and exponents below, as a string of digits and as a number; the
\* pairs whose quotient would reach 10^13 are left out.  No quotient lies
\* halfway between two renderings, where the double nearest to it decides.
Mantissas == {0, 1, 25, 999, 1006, 99996}
RawExponents == {0, 3, 6, 9, 11, 12}
RawAmounts ==
    {Js(form, 0, 0) : form \in {"null", "undefined", "empty", "blank", "text",
                                "dottedText"}}
    \cup {Js("decimal", 15, -1), Js("decimalJunk", 15, -1), Js("number", 15, -1),
          Js("digits", -5, 0)}
    \cup {Js(form, m, e) : form \in {"digits", "number"}, m \in Mantissas,
                           e \in RawExponents}
DecimalsArgs == {Js("number", 0, 0), Js("number", 6, 0), Js("number", 9, 0),
                 Js("Fungible", 0, 0), Js("text", 0, 0), Undefined}
FormatArgs == {a \in [rawAmount : RawAmounts, decimals : DecimalsArgs] :
                  a.rawAmount.e - decimalsOf(a.decimals) <= 8}
FormatInit ==
    /\ ManagerInit(0, 0, 0)
    /\ handshakes = NoHandshakes
    /\ \E a \in FormatArgs : probe = Unapplied("formatTokenAmount", a)

FormatTokenAmount ==
    /\ probe.fn = "formatTokenAmount"
    /\ ~probe.done
    /\ probe' = Applied(formatTokenAmount(probe.arg.rawAmount, probe.arg.decimals))
    /\ UNCHANGED managerVars

FormatNext == FormatTokenAmount

FormatSpec == FormatInit /\ [][FormatNext]_vars

\* extractTokenAmounts on its own: one call on a detailed transaction with
\* up to MaxTransfers token transfers and as many native transfers, while
\* either or both addresses are watched.  The amounts are '0', 0, 1.5 and
\* '2000000000'; the native amounts 0, 1500000000, -2000000000 and absent.
TokenAmounts == {Js("digits", 0, 0), Js("number", 0, 0), Js("number", 15, -1),
                 Js("digits", 2, 9)}
TokenTransfers ==
    {[mint |-> mint, tokenAmount |-> a, fromUserAccount |-> x[1],
      toUserAccount |-> x[2],
      tokenStandard |-> IF mint = SOLMint THEN Undefined ELSE Js("Fungible", 0, 0)] :
        mint \in {SOLMint, "m1"}, a \in TokenAmounts,
        x \in {<<"w1", Pool>>, <<Pool, "w1">>, <<"w1", "w2">>}}
NativeAmounts == {Js("number", 0, 0), Js("number", 15, 8), Js("number", -2, 9), Undefined}
NativeTransfers ==
    {[amount |-> a, fromUserAccount |-> Pool, toUserAccount |-> "w1"] :
        a \in NativeAmounts}
ListsOf(S) == UNION {[1..n -> S] : n \in 0..MaxTransfers}
ExtractTxs == [type : {"SWAP", "TRANSFER"}, tokenTransfers : ListsOf(TokenTransfers),
               nativeTransfers : ListsOf(NativeTransfers)]
ExtractInit ==
    /\ ManagerInit(0, 0, 0)
    /\ handshakes = NoHandshakes
    /\ \E enhancedTx \in ExtractTxs : probe = Unapplied("extractTokenAmounts", enhancedTx)

ExtractTokenAmounts ==
    /\ probe.fn = "extractTokenAmounts"
    /\ ~probe.done
    /\ probe' = Applied(extractTokenAmounts(This, probe.arg))
    /\ UNCHANGED managerVars

ExtractNext ==
    \/ AddWalletIn(Wallets)
    \/ ExtractTokenAmounts

ExtractSpec == ExtractInit /\ [][ExtractNext]_vars

\* The two rate-limited queues under load: MaxFrames push frames, so that
\* requests pile up behind a throttle window, with an asset endpoint that
\* stores nothing in the cache.
QueueNext ==
    \/ Tick
    \/ EnhancedQueueTimer
    \/ AssetBatchQueueTimer
    \/ AddWalletIn(QueueAddresses)
    \/ RemoveWalletIn(QueueAddresses)
    \/ OnOpen
    \/ OnCleanClose
    \/ OnMessage
    \/ EnhancedResponse
    \/ AssetBatchResponseOf({"error", "noResult"})

QueueSpec == Init /\ [][QueueNext]_vars

\* ------------------------------------------------------------------ claims
QueueOf(kind) ==
    IF kind = "enhanced" THEN enhancedTransactionQueue ELSE assetBatchQueue
QueuedFrames(kind) == {QueueOf(kind)[i].frame : i \in DOMAIN QueueOf(kind)}
InFlightFrames(kind) == {c.frame : c \in {x \in inflight : x.kind = kind}}
ThrottleTimerArmed(kind) ==
    \E t \in BagToSet(timers) :
        t.fn = IF kind = "enhanced" THEN "processEnhancedTransactionQueue"
               ELSE "processAssetBatchQueue"

\* C1: for each call kind, an upstream POST leaves at least rateLimitDelay
\* after the previous POST of that kind
C1_MinInterval == \A k \in Kinds : posts[k].gap >= rateLimitDelay

\* C1 witness: a second POST of a kind has just left, a full interval after
\* the first
C1_Witness ==
    \E k \in Kinds : /\ lastPost.kind = k
                    /\ Len(posts[k].tickets) >= 2
                    /\ posts[k].gap = rateLimitDelay

\* C2: within one kind the requests leave in the order they were submitted
C2_Fifo ==
    \A k \in Kinds : \A i, j \in DOMAIN posts[k].tickets :
        i < j => posts[k].tickets[i] < posts[k].tickets[j]

\* C2 witness: two requests waited behind a throttle window; the older of
\* them has just left and the younger is still queued
C2_Witness ==
    \E k \in Kinds : /\ lastPost.kind = k
                    /\ posts[k].tickets = <<1, 2>>
                    /\ Len(QueueOf(k)) = 1
                    /\ QueueOf(k)[1].ticket = 3

Requests == Kinds \X Frames
OnItsWay(r) ==
    \/ r[2] \in InFlightFrames(r[1])
    \/ r[2] \in QueuedFrames(r[1]) /\ ThrottleTimerArmed(r[1])

\* C3 as claimed: the future of an accepted request is resolved exactly once;
\* until then the request is still on its way to its resolution (in flight,
\* or queued with a throttle timer armed), whatever addWallet / removeWallet
\* calls interleave
C3_Original ==
    \A r \in Requests :
        \/ futures[r] \in {"none", "resolved"}
        \/ futures[r] = "pending" /\ OnItsWay(r)

\* C3 amended: no future is resolved twice, and a request whose future is
\* pending is in flight or queued with a throttle timer armed, so that fair
\* timers and I/O completion resolve it; a request still queued when
\* removeWallet empties the watched set is discarded and never resolved
C3_ResolvedOnceUnlessDiscarded ==
    \A r \in Requests :
        /\ futures[r] # "resolvedTwice"
        /\ futures[r] = "pending" => OnItsWay(r)

\* C3 witness: one request of a frame was resolved and the next request of
\* the same frame was discarded by removeWallet
C3_Witness ==
    \E f \in Frames : /\ futures[<<"enhanced", f>>] = "resolved"
                     /\ futures[<<"assetBatch", f>>] = "discarded"

Failed(status) == status \in {"error", "empty", "noResult"}
Placeholders(ids) == [i \in DOMAIN ids |-> Placeholder]

\* C4: when the upstream call fails, the future is resolved with the
\* sentinel (absent, or one placeholder per identifier), and a request queued
\* behind the failed one still has a throttle timer armed to issue it
C4_SentinelOnFailure ==
    (resultLog.kind \in Kinds /\ Failed(resultLog.status)) =>
        /\ futures[<<resultLog.kind, resultLog.frame>>] = "resolved"
        /\ resultLog.result = IF resultLog.kind = "enhanced" THEN <<NoTx>>
                              ELSE Placeholders(resultLog.ids)
        /\ QueueOf(resultLog.kind) # <<>> => ThrottleTimerArmed(resultLog.kind)

\* C4 witness: an asset-batch call has just failed with another request
\* queued behind it
C4_Witness ==
    /\ resultLog.kind = "assetBatch"
    /\ Failed(resultLog.status)
    /\ assetBatchQueue # <<>>

\* C5 as claimed: every cache entry a lookup hands out has now < expiry
C5_FreshHitsOnly == \A i \in DOMAIN lookupLog : Now < lookupLog[i].expiry

FreshEntry(mint) == [symbol |-> MintSymbol(mint), expiry |-> Now + cacheExpiry]

\* C7 as claimed: the result has the length and order of the request, with
\* the placeholder for every identifier the upstream did not return and for
\* every identifier when the call failed
C7_Original ==
    /\ resultLog.kind \in {"assetBatch", "cacheHit"} =>
           Len(resultLog.result) = Len(resultLog.ids)
    /\ resultLog.kind = "cacheHit" =>
           \A i \in DOMAIN resultLog.ids :
               resultLog.result[i].symbol = MintSymbol(resultLog.ids[i])
    /\ resultLog.kind = "assetBatch" =>
           \A i \in DOMAIN resultLog.ids :
               resultLog.result[i] =
                   IF resultLog.status = "ok" /\ resultLog.ids[i] \in resultLog.returned
                   THEN FreshEntry(resultLog.ids[i]) ELSE Placeholder

\* C7 amended: as claimed, except that on a successful call an identifier the
\* upstream did not return gets its cached metadata when the cache holds it,
\* and the placeholder only when it does not
C7_PlaceholderUnlessCached ==
    /\ resultLog.kind \in {"assetBatch", "cacheHit"} =>
           Len(resultLog.result) = Len(resultLog.ids)
    /\ resultLog.kind = "cacheHit" =>
           \A i \in DOMAIN resultLog.ids :
               resultLog.result[i].symbol = MintSymbol(resultLog.ids[i])
    /\ resultLog.kind = "assetBatch" =>
           \A i \in DOMAIN resultLog.ids :
               LET mint == resultLog.ids[i]
               IN CASE resultLog.status # "ok" -> resultLog.result[i] = Placeholder
                    [] mint \in resultLog.returned ->
                           resultLog.result[i] = FreshEntry(mint)
                    [] mint \in resultLog.cachedBefore ->
                           /\ resultLog.result[i] # Placeholder
                           /\ resultLog.result[i].symbol = MintSymbol(mint)
                    [] OTHER -> resultLog.result[i] = Placeholder

\* C7 witness: a successful call returned one identifier and not the other,
\* which was not cached either
C7_Witness ==
    /\ resultLog.kind = "assetBatch"
    /\ resultLog.status = "ok"
    /\ \E i, j \in DOMAIN resultLog.ids :
           /\ resultLog.ids[i] \in resultLog.returned
           /\ resultLog.ids[j] \notin resultLog.returned \cup resultLog.cachedBefore

\* C8 as claimed: an address leaves the watched set only by a removeWallet of
\* that address, and enters it only by an addWallet of that address
C8_OnlyAddRemove ==
    [][\A a \in Wallets :
          /\ (a \in trackedWallets /\ a \notin trackedWallets') =>
                 Commit(removeWallet(This, a))
          /\ (a \notin trackedWallets /\ a \in trackedWallets') =>
                 Commit(addWallet(This, a))]_vars

\* C9 as claimed: while the watched set is empty no socket of the manager is
\* open or connecting and the connected flag is false
C9_EmptyMeansIdle ==
    trackedWallets = {} =>
        /\ \A s \in SocketIds : sockets[s] \notin {"open", "connecting"}
        /\ ~isConnected

\* C10 as claimed: no upstream call leaves while the watched set is empty
C10_NoCallWhileEmpty == lastPost.kind # "none" => ~lastPost.walletsEmpty

\* ------------------------------------------------------------ C11 .. C20
Live(s) == s # NoSocket /\ sockets[s] \in {"open", "connecting"}
TimerArmed(fn, arg) == \E t \in BagToSet(timers) : t.fn = fn /\ t.arg = arg
SendsOn(s, wallet) ==
    Cardinality({i \in DOMAIN wireLog.sends : wireLog.sends[i] = <<s, wallet>>})
\* the onopen listener of the socket this.websocket refers to has just run
CurrentOpened == wireLog.opened # NoSocket /\ wireLog.opened = websocket

\* C11: a removeWallet that leaves addresses behind and finds a socket closes
\* that socket and arms the reconnect timer with the addresses that remain;
\* the timer's callback creates a new socket for that set; and when the
\* current socket opens, one subscribe per watched address is sent on it and
\* none for any other address
C11_CloseAndResubscribe ==
    [][/\ \A a \in Wallets :
              (/\ a \in trackedWallets
               /\ trackedWallets \ {a} # {}
               /\ websocket # NoSocket
               /\ Commit(removeWallet(This, a)))
              => /\ ~Live(websocket)'
                 /\ TimerArmed("resubscribe", trackedWallets \ {a})'
       /\ \A t \in Due("resubscribe") :
              Commit(connect([clearFired(This, t) EXCEPT !.trackedWallets = t.arg]))
              => /\ trackedWallets' = t.arg
                 /\ wireLog'.created # NoSocket
                 /\ websocket' = wireLog'.created
                 /\ sockets'[websocket'] = "connecting"
       /\ CurrentOpened' =>
              /\ wireLog'.threw = "no"
              /\ \A w \in Wallets :
                     SendsOn(websocket, w)' = IF w \in trackedWallets' THEN 1 ELSE 0
      ]_vars

\* C11 witness: the reconnect timer of removeWallet has just run: the old
\* socket is gone and a new one is connecting for the address that remains
C11_Witness ==
    /\ wireLog.ran = "resubscribe"
    /\ wireLog.created = websocket
    /\ trackedWallets = {"w2"}
    /\ \A s \in SocketIds \ {websocket} : sockets[s] = "free"
    /\ timers = EmptyBag

C13_CircularRotation ==
    /\ [][(wireLog'.rotated # "none" \/ currentApiKeyIndex' # currentApiKeyIndex) =>
              /\ wireLog'.rotated \in {"time", "usage"}
              /\ currentApiKeyIndex' = (currentApiKeyIndex + 1) % NumApiKeys
              /\ callsPerKey' = 0]_vars
    /\ [](/\ currentApiKeyIndex \in 0..(NumApiKeys - 1)
          /\ currentApiKeyIndex + 1 \in DOMAIN heliusApiKeys
          /\ getCurrentApiKey(This) \in Range(heliusApiKeys))

\* C13 witness: a usage rotation has wrapped the index from the last key of
\* the pool to the first
C13_Witness ==
    /\ wireLog.rotated = "usage"
    /\ currentApiKeyIndex = 0
    /\ callsPerKey = 0

\* C14: a step that issues an upstream call either adds one to the usage
\* counter or, when that brings it to the threshold, rotates and leaves it at
\* 0; the counter is always below the threshold and no credential serves more
\* than maxCallsPerRotation consecutive calls
C14_UsageRotation ==
    /\ [][lastPost'.kind # "none" =>
              IF callsPerKey + 1 >= maxCallsPerRotation
              THEN wireLog'.rotated = "usage" /\ callsPerKey' = 0 /\ keyUses' = 1
              ELSE /\ wireLog'.rotated = "none"
                   /\ callsPerKey' = callsPerKey + 1
                   /\ keyUses' = keyUses + 1]_vars
    /\ [](callsPerKey < maxCallsPerRotation /\ keyUses <= maxCallsPerRotation)

\* C14 witness: a credential has served maxCallsPerRotation calls in a row
C14_Witness ==
    /\ lastPost.kind # "none"
    /\ keyUses = maxCallsPerRotation

\* C15 as claimed: when a socket opens, the connected flag is true, the retry
\* counter is 0 and exactly one subscribe per watched address has been sent on
\* that socket
C15_OpenSubscribesAll ==
    wireLog.opened # NoSocket =>
        /\ isConnected
        /\ reconnectAttempts = 0
        /\ \A w \in Wallets :
               SendsOn(wireLog.opened, w) = IF w \in trackedWallets THEN 1 ELSE 0

\* C16: a transport error leaves the socket to close uncleanly; an unclean
\* close below the retry bound counts one attempt and arms one more connect
\* timer; and the timer's callback, with a non-empty watched set, creates a
\* socket
C16_UncleanCloseReconnects ==
    [][/\ wireLog'.event = "error" =>
              /\ ~isConnected'
              /\ \E s \in SocketIds : sockets[s] # "failed" /\ sockets'[s] = "failed"
       /\ (wireLog'.event = "uncleanClose" /\ reconnectAttempts < maxReconnectAttempts) =>
              /\ ~isConnected'
              /\ reconnectAttempts' = reconnectAttempts + 1
              /\ PendingConnects(This)' = PendingConnects(This) + 1
              /\ \E t \in BagToSet(timers') :
                     /\ t.fn = "connect"
                     /\ t.due = Now + reconnectDelay
                     /\ CopiesIn(t, timers') = CopiesIn(t, timers) + 1
       /\ (wireLog'.ran = "connect" /\ trackedWallets # {}) =>
              /\ wireLog'.created # NoSocket
              /\ websocket' = wireLog'.created
      ]_vars

\* C16 witness: an open socket has closed uncleanly and the first reconnect
\* attempt is scheduled
C16_Witness ==
    /\ wireLog.event = "uncleanClose"
    /\ wireLog.was = "open"
    /\ trackedWallets # {}
    /\ reconnectAttempts = 1
    /\ TimerArmed("connect", {})

Quiet == timers = EmptyBag /\ \A s \in SocketIds : sockets[s] = "free"

\* C17: the retry counter never exceeds maxReconnectAttempts and only an open
\* resets it; an unclean close at the bound schedules nothing and leaves the
\* flag false; and from there, with no timer pending and no socket left, only
\* a call from outside creates a socket
C17_BoundedRetries ==
    /\ [](reconnectAttempts \in 0..maxReconnectAttempts)
    /\ [][/\ reconnectAttempts' < reconnectAttempts =>
                 wireLog'.opened # NoSocket /\ reconnectAttempts' = 0
          /\ reconnectAttempts' > reconnectAttempts =>
                 /\ wireLog'.event = "uncleanClose"
                 /\ reconnectAttempts' = reconnectAttempts + 1
          /\ (wireLog'.event = "uncleanClose" /\ reconnectAttempts = maxReconnectAttempts) =>
                 /\ timers' = timers
                 /\ reconnectAttempts' = maxReconnectAttempts
                 /\ ~isConnected'
          /\ (Quiet /\ reconnectAttempts = maxReconnectAttempts) =>
                 /\ ~isConnected'
                 /\ wireLog'.created # NoSocket => wireLog'.ran = "none"
         ]_vars

\* C17 witness: an unclean close at the bound has scheduled nothing
C17_Witness ==
    /\ wireLog.event = "uncleanClose"
    /\ reconnectAttempts = maxReconnectAttempts
    /\ trackedWallets # {}
    /\ Quiet

\* C18: every event handed to the downstream callback was admitted by
\* shouldShowTransaction, its token is none of the blank, placeholder or
\* SOL-alias symbols and its wallet none of the generic labels, whichever
\* path of processTransactionUpdate produced it.
C18_OnlyAdmittedEvents ==
    \A i \in DOMAIN notifyLog :
        /\ shouldShowTransaction(notifyLog[i].data)
        /\ ~isTokenBlacklisted(notifyLog[i].data.token)
        /\ ~isWalletNameBlacklisted(notifyLog[i].data.wallet)

\* C19: the downstream callback is called at most once for a push frame,
\* also when the call throws.
CallsFor(frame) == {i \in DOMAIN notifyLog : notifyLog[i].data.signature = frame}
C19_AtMostOneCall == \A frame \in Frames : Cardinality(CallsFor(frame)) <= 1

\* C20: when the transaction endpoint answers with a detailed transaction
\* whose type is not a swap, or that has no type, the frame makes no
\* asset-batch request and the callback receives nothing.
NonSwapAnswer ==
    /\ resultLog.kind = "enhanced"
    /\ resultLog.status = "ok"
    /\ ~IsSwap(resultLog.result[1].type)
C20_NonSwapSilent ==
    NonSwapAnswer =>
        /\ notifyLog = <<>>
        /\ lastPost.kind # "assetBatch"
        /\ futures[<<"assetBatch", resultLog.frame>>] = "none"

\* C21: whatever the frame, the detailed transaction, the enrichment calls and
\* the downstream callback do, the frame handler ends without an exception
\* or a rejected promise leaving it.
C21_NothingEscapes == wireLog.threw # "rejected"

\* C22: when the detailed-transaction fetch of a frame yields null (error,
\* timeout or empty result), the step hands exactly one fallback event with
\* the frame's signature to the handler and the frame ends there; the step
\* leaves the watched set, both queues and the other frames' processing as
\* they were, so later frames run as usual.
AbsentAnswer == resultLog.kind = "enhanced" /\ resultLog.result[1] = NoTx
FallbackEvent(frame) ==
    [signature |-> frame, wallet |-> "Transaction Detected", token |-> "Unknown",
     buySell |-> NoField, solAmount |-> NoField, type |-> "basic_transaction",
     mintAddress |-> NoField]
C22_AbsentGivesOneFallback ==
    /\ [](AbsentAnswer =>
            /\ Len(notifyLog) = 1
            /\ notifyLog[1].data = FallbackEvent(resultLog.frame)
            /\ tasks[resultLog.frame].pc = "done"
            /\ wireLog.threw = "no")
    /\ [][AbsentAnswer' =>
            /\ trackedWallets' = trackedWallets
            /\ enhancedTransactionQueue' = enhancedTransactionQueue
            /\ assetBatchQueue' = assetBatchQueue
            /\ \A f \in Frames \ {resultLog'.frame} : tasks'[f] = tasks[f]
            /\ \A r \in Requests \ {<<"enhanced", resultLog'.frame>>} :
                   futures'[r] = futures[r]]_vars
C22_Witness ==
    /\ AbsentAnswer
    /\ resultLog.frame = 1
    /\ Len(notifyLog) = 1
    /\ tasks[2].pc = "awaitEnhanced"
    /\ tasks[3].pc = "idle"

\* C24: addWallet with an address that fails validation returns false, and
\* removeWallet with an address that is not watched returns false; either
\* call leaves the watched set, the connection, both queues and the pending
\* timers as they were, in whatever state it is made.
SameManager(m) ==
    /\ m.trackedWallets = trackedWallets
    /\ m.websocket = websocket
    /\ m.sockets = sockets
    /\ m.isConnected = isConnected
    /\ m.reconnectAttempts = reconnectAttempts
    /\ m.reconnectDelay = reconnectDelay
    /\ m.enhancedTransactionQueue = enhancedTransactionQueue
    /\ m.assetBatchQueue = assetBatchQueue
    /\ m.timers = timers
    /\ m.inflight = inflight
    /\ m.wireLog = NoWire
C24_RejectedCallsChangeNothing ==
    /\ \A a \in Addresses : ~validateWalletAddress(a) =>
           /\ ~addWalletReturns(This, a)
           /\ SameManager(addWallet(This, a))
    /\ \A a \in Addresses \ trackedWallets :
           /\ ~removeWalletReturns(This, a)
           /\ SameManager(removeWallet(This, a))
C24_Witness ==
    /\ trackedWallets = {"w1"}
    /\ isConnected
    /\ Len(enhancedTransactionQueue) > 0
    /\ timers # EmptyBag
    /\ ~addWalletReturns(This, InvalidAddress)
    /\ ~removeWalletReturns(This, "w2")

\* ---- the classifier, over the step that completes a frame's asset batch:
\* the frame's swap is tasks[frame].tx before the step, its events are in
\* notifyLog after it
Classifies == resultLog'.kind = "assetBatch"
SwapOf == tasks[resultLog'.frame].tx
Magnitude(t) == Abs(t.solAmount)
\* the transfers of largest magnitude, and the one such transfer if unique
MainTransfers(sol) ==
    {i \in DOMAIN sol : \A j \in DOMAIN sol : Magnitude(sol[j]) <= Magnitude(sol[i])}
ClassifiedEvents(log) ==
    {log[i].data : i \in {k \in DOMAIN log : log[k].data.type = "enhanced_transaction"}}

\* C23: when the one SOL transfer of largest magnitude has a watched endpoint,
\* every event of the swap is SELL with the receiving watched address as its
\* wallet, or BUY with the sending watched address as its wallet, and its
\* amount is that transfer's magnitude, whatever smaller transfers there are.
C23_MainTransferDecides ==
    [][Classifies =>
        \A i \in MainTransfers(SwapOf.sol), e \in ClassifiedEvents(notifyLog') :
            Cardinality(MainTransfers(SwapOf.sol)) = 1 =>
                /\ SwapOf.sol[i].toUserAccount \in trackedWallets =>
                       /\ e.buySell = "SELL"
                       /\ e.wallet = SwapOf.sol[i].toUserAccount
                       /\ e.solAmount = Magnitude(SwapOf.sol[i])
                /\ SwapOf.sol[i].fromUserAccount \in trackedWallets =>
                       /\ e.buySell = "BUY"
                       /\ e.wallet = SwapOf.sol[i].fromUserAccount
                       /\ e.solAmount = Magnitude(SwapOf.sol[i])]_vars

\* C25: a swap without any SOL transfer gives no event.
C25_NoAmountNoEvent ==
    [][(Classifies /\ SwapOf.sol = <<>>) => notifyLog' = <<>>]_vars

\* C26: every classified event has direction BUY or SELL and an amount of at
\* least 0.001 SOL.
C26_DirectionAndThreshold ==
    \A e \in ClassifiedEvents(notifyLog) :
        /\ e.buySell \in {"BUY", "SELL"}
        /\ e.solAmount # NoField
        /\ e.solAmount >= minSolAmount

\* C27: when no SOL transfer of largest magnitude has a watched endpoint, the
\* event's amount is the sum of the magnitudes of all SOL transfers, and its
\* direction is BUY when watched addresses send more than they receive and
\* SELL when they receive more than they send.
SentByWatched(sol) ==
    Sum([i \in DOMAIN sol |-> Magnitude(sol[i])],
        {i \in DOMAIN sol : sol[i].fromUserAccount \in trackedWallets})
ReceivedByWatched(sol) ==
    Sum([i \in DOMAIN sol |-> Magnitude(sol[i])],
        {i \in DOMAIN sol : sol[i].toUserAccount \in trackedWallets})
NoWatchedMain(sol) ==
    /\ sol # <<>>
    /\ \A i \in MainTransfers(sol) :
           /\ sol[i].fromUserAccount \notin trackedWallets
           /\ sol[i].toUserAccount \notin trackedWallets
C27_NetFlowDecides ==
    [][(Classifies /\ NoWatchedMain(SwapOf.sol)) =>
        \A e \in ClassifiedEvents(notifyLog') :
            /\ e.solAmount = Sum([i \in DOMAIN SwapOf.sol |-> Magnitude(SwapOf.sol[i])],
                                 DOMAIN SwapOf.sol)
            /\ SentByWatched(SwapOf.sol) > ReceivedByWatched(SwapOf.sol)
                   => e.buySell = "BUY"
            /\ ReceivedByWatched(SwapOf.sol) > SentByWatched(SwapOf.sol)
                   => e.buySell = "SELL"]_vars
C27_Witness ==
    /\ resultLog.kind = "assetBatch"
    /\ trackedWallets = {"w1"}
    /\ \E e \in ClassifiedEvents(notifyLog) :
           /\ e.buySell = "BUY"
           /\ e.solAmount = 2005000
           /\ e.wallet = "w1"

\* C28: the event's token is the symbol of the first asset of the swap, in
\* the order of its mints, whose symbol has two characters or more and is
\* not on the list of blank, placeholder and SOL-alias symbols; when such an
\* asset exists and the SOL amount reaches the threshold, there is an event.
Qualifies(asset) == ~isTokenBlacklisted(asset.symbol) /\ Len(asset.symbol) >= 2
C28_FirstQualifyingAsset ==
    [][Classifies =>
        LET assets == resultLog'.result
            good == {i \in DOMAIN assets : Qualifies(assets[i])}
            sol == SwapOf.sol
        IN /\ \A e \in ClassifiedEvents(notifyLog') :
                  good # {} /\ e.token = assets[SetMin(good)].symbol
           /\ (/\ good # {}
               /\ sol # <<>>
               /\ classifySOLTransfers(This, sol).totalSOLAmount >= minSolAmount)
                  => ClassifiedEvents(notifyLog') # {}]_vars

\* ---- the filter
ValidSymbol(token) ==
    /\ ~Falsy(token)
    /\ Len(token) >= 2
    /\ ~isTokenBlacklisted(token)
Filtered == probe.fn = "shouldShowTransaction" /\ probe.done

\* C29: a candidate whose token has two characters or more and is neither a
\* placeholder nor a SOL alias is admitted, whatever its wallet label, type
\* and mintAddress are.
C29_ValidSymbolAdmitted ==
    (Filtered /\ ValidSymbol(probe.arg.token)) => probe.result
C29_Witness ==
    /\ Filtered
    /\ probe.arg.token = "FOO"
    /\ probe.arg.wallet = "Activity Detected"
    /\ probe.arg.type = "account_change"
    /\ probe.arg.mintAddress = NoField
    /\ probe.result

\* C30 as stated: a candidate with a generic wallet label or a useless type
\* is rejected.
GenericOrUseless(candidate) ==
    \/ candidate.wallet \in blacklistedWalletNames
    \/ candidate.type \in blacklistedTransactionTypes
C30_Original ==
    (Filtered /\ GenericOrUseless(probe.arg)) => ~probe.result

\* C30: a candidate with a generic wallet label or a useless type is
\* rejected unless its token is a valid symbol; with a valid symbol it is
\* admitted.
C30_RejectedUnlessValidSymbol ==
    (Filtered /\ GenericOrUseless(probe.arg)) =>
        (probe.result <=> ValidSymbol(probe.arg.token))
C30_Witness ==
    /\ Filtered
    /\ probe.arg.token = "X"
    /\ probe.arg.wallet = "Generic Transaction"
    /\ probe.arg.type = "basic_transaction"
    /\ ~probe.result


Subscribed == websocket # NoSocket /\ sockets[websocket] = "open"

\* C32 as claimed: addWallet of a valid address while Subscribed sends one
\* subscribe, for that address, on the current socket, closes no socket and
\* creates none
C32_IncrementalSubscribe ==
    [][\A a \in Wallets :
          (Subscribed /\ Commit(addWallet(This, a))) =>
              /\ wireLog'.sends = <<<<websocket, a>>>>
              /\ wireLog'.created = NoSocket
              /\ sockets' = sockets
              /\ websocket' = websocket
      ]_vars

\* C33 as claimed: the k-th reconnect attempt since the last open, k being
\* the retry counter after the attempt is counted, is scheduled
\* min(initialReconnectDelay * 2^(k-1), maxReconnectDelay) ahead, and no
\* stored delay exceeds maxReconnectDelay
C33_BackoffFromInitial ==
    /\ [](reconnectDelay <= maxReconnectDelay)
    /\ [][(wireLog'.event = "uncleanClose" /\ reconnectAttempts' = reconnectAttempts + 1) =>
              \E t \in BagToSet(timers') :
                  /\ t.fn = "connect"
                  /\ CopiesIn(t, timers') = CopiesIn(t, timers) + 1
                  /\ t.due = Now + Min(initialReconnectDelay * 2^(reconnectAttempts' - 1),
                                       maxReconnectDelay)
          ]_vars

\* the number of decimal digits of a positive integer
RECURSIVE DigitsOf(_)
DigitsOf(n) == IF n < 10 THEN 1 ELSE 1 + DigitsOf(n \div 10)
\* m * 10^x >= 10^k, by counting digits
AtLeast(m, x, k) == m >= 1 /\ DigitsOf(m) + x >= k + 1
\* m * 10^x in units of 10^(k - 2), to the nearest
Hundredths(m, x, k) ==
    IF x - k + 2 >= 0 THEN m * 10 ^ (x - k + 2)
    ELSE (2 * m + 10 ^ (k - 2 - x)) \div (2 * 10 ^ (k - 2 - x))
Formatted == probe.fn = "formatTokenAmount" /\ probe.done
NonNegativeInteger(v) == v.form \in {"digits", "number"} /\ v.m >= 0 /\ v.e >= 0

Extracts == probe.fn = "extractTokenAmounts" /\ ~probe.done /\ probe'.done
ExtractedTx == probe.arg
\* an amount that denotes a number other than 0
NonZero(v) == v.form \in {"number", "digits", "decimal"} /\ v.m # 0
FromTokenTransfer(entry) == entry.decimals # Undefined
Negation(type) == IF type = "BUY" THEN "SELL" ELSE "BUY"

\* C34: every token transfer with a non-zero amount has its entry; the type
\* of an entry made from a token transfer of the SOL mint is the negation of
\* what determineBuySell says for the transfer, SELL when only its receiver
\* is watched and BUY when only its sender is; the type of an entry of
\* another mint is what determineBuySell says
C34_DirectionCorrection ==
    [][Extracts =>
          /\ \A i \in DOMAIN ExtractedTx.tokenTransfers :
                 LET t == ExtractedTx.tokenTransfers[i]
                 IN NonZero(t.tokenAmount) =>
                        \E j \in DOMAIN probe'.value[1] :
                            /\ FromTokenTransfer(probe'.value[1][j])
                            /\ probe'.value[1][j].mint = t.mint
                            /\ probe'.value[1][j].rawAmount = t.tokenAmount
                            /\ probe'.value[1][j].fromUserAccount = t.fromUserAccount
                            /\ probe'.value[1][j].toUserAccount = t.toUserAccount
          /\ \A j \in DOMAIN probe'.value[1] :
                 LET entry == probe'.value[1][j]
                     membership == IF determineBuySell(This, entry, ExtractedTx)
                                   THEN "BUY" ELSE "SELL"
                     received == entry.toUserAccount \in trackedWallets
                     sent == entry.fromUserAccount \in trackedWallets
                 IN FromTokenTransfer(entry) =>
                        IF entry.mint = SOLMint
                        THEN /\ entry.type = Negation(membership)
                             /\ (received /\ ~sent) => entry.type = "SELL"
                             /\ (sent /\ ~received) => entry.type = "BUY"
                        ELSE entry.type = membership
      ]_vars

\* C34 witness: a watched address received 2 SOL as a token transfer and
\* the entry says SELL
C34_Witness ==
    /\ probe.fn = "extractTokenAmounts"
    /\ probe.done
    /\ trackedWallets = {"w1"}
    /\ Len(probe.value[1]) = 1
    /\ probe.value[1][1].mint = SOLMint
    /\ probe.value[1][1].toUserAccount = "w1"
    /\ probe.value[1][1].solAmount = Dec(2, 0)
    /\ probe.value[1][1].type = "SELL"

NativeEntries(result) == SelectSeq(result, LAMBDA entry : ~FromTokenTransfer(entry))
NonZeroNative(transfer) == NonZero(transfer.amount)
\* C35: the result has entries made from native transfers only when it has
\* no entry made from a token transfer of the SOL mint; then there is one
\* per native transfer with a non-zero amount, in order, with the SOL mint,
\* the amount over 10^9, rendered with three decimals when it is at least
\* 1 and below 1000, and BUY when the amount is positive, SELL otherwise
C35_NativeFallback ==
    [][Extracts =>
          LET result == probe'.value[1]
              solFromTokens == \E j \in DOMAIN result :
                                  FromTokenTransfer(result[j]) /\ result[j].isSOL
              nonZero == SelectSeq(ExtractedTx.nativeTransfers, NonZeroNative)
              entries == NativeEntries(result)
          IN IF solFromTokens THEN entries = <<>>
             ELSE /\ Len(entries) = Len(nonZero)
                  /\ \A k \in DOMAIN entries :
                         LET a == nonZero[k].amount
                         IN /\ entries[k].mint = SOLMint
                            /\ entries[k].isSOL
                            /\ entries[k].solAmount = Norm(Dec(a.m, a.e - 9))
                            /\ entries[k].type = (IF a.m > 0 THEN "BUY" ELSE "SELL")
                            /\ (AtLeast(a.m, a.e - 9, 0) /\ ~AtLeast(a.m, a.e - 9, 3)) =>
                                   entries[k].humanAmount
                                       = Text(a.m * 10 ^ (a.e - 9 + 3), 3, " SOL")
      ]_vars

\* C35 witness: without a SOL token transfer, the native transfer of
\* 1500000000 gave one entry of 1.5 SOL, '1.500 SOL', BUY
C35_Witness ==
    /\ probe.fn = "extractTokenAmounts"
    /\ probe.done
    /\ probe.arg.nativeTransfers = <<[amount |-> Js("number", 15, 8),
                                      fromUserAccount |-> Pool,
                                      toUserAccount |-> "w1"]>>
    /\ Len(probe.value[1]) = 1
    /\ probe.value[1][1].mint = SOLMint
    /\ probe.value[1][1].solAmount = Dec(15, -1)
    /\ probe.value[1][1].humanAmount = Text(1500, 3, " SOL")
    /\ probe.value[1][1].type = "BUY"

\* sockets of the manager that are open or connecting
LiveSockets == {s \in SocketIds : sockets[s] \in {"open", "connecting"}}

\* C37 as claimed: at most one socket created by the manager is open or
\* connecting at any time, and a step that creates a socket starts with
\* every earlier socket closed
C37_SingleLiveSocket ==
    /\ [](Cardinality(LiveSockets) <= 1)
    /\ [][wireLog'.created # NoSocket => \A s \in SocketIds : sockets[s] = "free"]_vars

\* C38 as claimed: the connected flag of getStatus is true exactly when the
\* current socket of the manager is open
C38_FlagTracksCurrentSocket == getStatus(This).connected <=> Subscribed

\* C39 as claimed: a step that hands an event to the downstream callback
\* ends with a non-empty watched set, and the wallet of every classified
\* event it hands over is a watched address
C39_HandOffWithinWatchedSet ==
    /\ notifyLog # <<>> => trackedWallets # {}
    /\ \A e \in ClassifiedEvents(notifyLog) : e.wallet \in trackedWallets

\* C40 as claimed: while the current socket is open and no reconnect is
\* pending, the credential in the URL of its handshake is the current one
C40_OpenSocketHasCurrentCredential ==
    (Subscribed /\ PendingConnects(This) = 0) =>
        <<websocket, currentApiKeyIndex>> \in handshakes.urls

====
